---- MODULE Spec2Model ----
(***************************************************************************)
(* Model of pixijs-interpolated-ticker:                                    *)
(*   - ContainerInterpolator (capture / blend / unblend) of                *)
(*     src/unnamed/part_001, lines 410-848;                                *)
(*   - InterpolatedTicker (the requestAnimationFrame loop with its own     *)
(*     capture / interpolate / restore passes) of                          *)
(*     src/src/InterpolatedTicker.ts, lines 494-1100;                      *)
(*   - fpsCounter (the frame rate sampler) of src/unnamed/part_000,        *)
(*     lines 11-39.                                                        *)
(*                                                                         *)
(* Numbers.  A container property is a JavaScript double.  The model keeps *)
(* the doubles n / Den (Den a power of two) as the integer n.  Sums and    *)
(* differences are exact; the product "delta * t" of a blend is rounded    *)
(* down to the grid (MulT), which stands for the double rounding of the    *)
(* product.  A store into a Float32Array converts the double to single     *)
(* precision: Fround rounds to a 24 bit significand, ties to even.         *)
(* Rotations are kept in units of PI / (180 * Den), so that Math.PI is the *)
(* integer PI.  Times are kept in units of 5 ms.                           *)
(***************************************************************************)
EXTENDS Integers, Sequences, FiniteSets, TLC

\* ------------------------------------------------------------------ bounds

\* The number of host writes (property changes, destructions) in a behaviour.
MaxHostOps == 2

\* The number of calls of the interpolator's API in a behaviour.
MaxCalls == 3

\* The number of callbacks of the ticker's loop in a behaviour.
MaxFrames == 3

\* The number of calls of the ticker's API in a behaviour.
MaxTickerCalls == 4

\* The calls of the sampler of fpsCounter in a run.
MaxSamplerCalls == 6

\* ----------------------------------------------------------------- numbers

Den == 2 ^ 4

PI == 180 * Den

Abs(v) == IF v < 0 THEN -v ELSE v

Min(a, b) == IF a <= b THEN a ELSE b

Max(a, b) == IF a >= b THEN a ELSE b

\* The spacing of single-precision numbers around the magnitude m:
\* 1 below 2^24, 2 below 2^25, and so on.
RECURSIVE Quantum(_, _)
Quantum(m, q) == IF m < q * (2 ^ 24) THEN q ELSE Quantum(m, 2 * q)

\* Math.fround on the grid: round to nearest, ties to the even significand.
Fround(v) ==
  LET m  == Abs(v)
      q  == Quantum(m, 1)
      lo == (m \div q) * q
      r  == m - lo
      up == IF 2 * r > q THEN TRUE
            ELSE IF 2 * r < q THEN FALSE
            ELSE ((lo \div q) % 2) = 1
      w  == IF up THEN lo + q ELSE lo
  IN  IF v < 0 THEN -w ELSE w

\* A blend parameter is the fraction t[1] / t[2], t[2] > 0.
\* The double product delta * t.
MulT(delta, t) == (delta * t[1]) \div t[2]

\* ------------------------------------------------------------------- nodes

Root == 1

Nodes == {1, 2, 3}

\* The containers of the scene the host builds first: the stage and a child.
\* Container 3 is constructed but not added to the stage.
Scene == {1, 2}

PropSet == {"x", "y", "scaleX", "scaleY", "rotation", "alpha"}

\* A value that single precision cannot hold: 2^24 + 1 on the grid.
Big == (2 ^ 24) + 1

\* The values the host writes into a property.
PropVals(p) ==
  CASE p = "x"        -> {0, 1592, 1600, 1608, Big}
    [] p = "y"        -> {0, 800, 1608}
    [] p = "scaleX"   -> {Den, 24, 48}
    [] p = "scaleY"   -> {Den, 48}
    [] p = "rotation" -> {0, 150 * Den, 170 * Den, -170 * Den}
    [] p = "alpha"    -> {0, 8, Den}

\* new Container(): position 0, scale 1, rotation 0, alpha 1.
DefaultProps ==
  [p \in PropSet |-> IF p \in {"scaleX", "scaleY", "alpha"} THEN Den ELSE 0]

\* JavaScript arrays and typed arrays are functions on 0 .. length-1.
\* 0 stands for an undefined entry of an array of containers.
NewArray(len) == [i \in 0 .. len - 1 |-> 0]

ArrGet(a, i) == IF i \in DOMAIN a THEN a[i] ELSE 0

ArrLen(a) == Cardinality(DOMAIN a)

ArrSet(a, i, v) ==
  [j \in 0 .. Max(ArrLen(a), i + 1) - 1 |->
     IF j = i THEN v ELSE ArrGet(a, j)]

\* A store into a Float32Array: out of range it is ignored, in range the
\* value is converted to single precision.
TaSet(a, i, v) == IF i \in DOMAIN a THEN [a EXCEPT ![i] = Fround(v)] ELSE a

\* new Float32Array(buffer, offset, len) over a fresh buffer, then
\* array.set(previousArray).
TaAllocCopy(old, len) == [i \in 0 .. len - 1 |-> IF i \in DOMAIN old THEN old[i] ELSE 0]

VARIABLES
  val,          \* val[n][p]: property p of container n
  destroyed,    \* container.destroyed
  visible,      \* container.visible
  children,     \* container.children
  isInterpolated,           \* "undefined", "true", "false"
  hasInterpolatedChildren,  \* "undefined", "true", "false"
  hostOps,      \* host writes so far
  calls,        \* calls of the interpolator's API so far
  ci,           \* the ContainerInterpolator instance
  ciLog,        \* what the last call of the interpolator's API saw
  host,         \* the class the application constructed
  tk,           \* the InterpolatedTicker instance
  nd,           \* nd[n]: the fields the ticker reads and writes on container n
  pc,           \* the callback of the loop that is running, "idle" between frames
  pending,      \* callbacks of the loop that requestAnimationFrame holds
  renderDelta,  \* the loop's local renderDelta
  sincePrev,    \* performance.now() - _previousTime
  sinceRender,  \* time since renderer.render() was last called, NoLimit if never
  frames,       \* callbacks of the loop run so far
  fc,           \* the closure of the function fpsCounter returned
  fcLog,        \* what the calls of that function did
  tlog          \* what the running (or last) callback of the loop did

nodeVars == <<val, destroyed, visible, children, isInterpolated, hasInterpolatedChildren>>

tkVars == <<host, tk, nd, pc, pending, renderDelta, sincePrev, sinceRender, frames, tlog,
           fc, fcLog>>

vars == <<val, destroyed, visible, children, isInterpolated, hasInterpolatedChildren,
          hostOps, calls, ci, ciLog,
          host, tk, nd, pc, pending, renderDelta, sincePrev, sinceRender, frames, tlog,
          fc, fcLog>>

\* ------------------------------------------------------------- fpsCounter

\* The options the model calls fpsCounter with: a sample every 50 ms
\* reported to 1, or every 100 ms reported to 5.
FpsOptions ==
  { [intervalMS |-> 50, precision |-> 1],
    [intervalMS |-> 100, precision |-> 5] }

\* The frame times fed to the sampler, in ms.
FrameTimes == {5, 16, 17, 33, 50, 120}

\* fpsCounter(options): the variables of the closure it returns.
NewFpsCounter(options) ==
  [ intervalMS |-> options.intervalMS,
    precision  |-> options.precision,
    elapsed    |-> 0,
    frames     |-> 0,
    _fps       |-> 0 ]

\* Math.round(num / den) for num >= 0 and den > 0: halves go up.
MathRound(num, den) == (2 * num + den) \div (2 * den)

\* Math.round(frames * 1000 / elapsed / precision) * precision
FpsOf(count, elapsed, precision) ==
  MathRound(count * 1000, elapsed * precision) * precision

\* Fault injection: a sampler that reports every sample.
FpsAlwaysChanged(prev, fps) == TRUE

\* _fps !== fps
FpsChanged(prev, fps) == prev # fps

\* The function fpsCounter returns, called with deltaMS: the closure after
\* the call and the values onChange was called with.
TrackFrame(c, deltaMS) ==
  LET elapsed1 == c.elapsed + deltaMS
      frames1  == c.frames + 1
      fps      == FpsOf(frames1, elapsed1, c.precision)
      reset    == [c EXCEPT !.elapsed = 0, !.frames = 0]
  IN  IF elapsed1 < c.intervalMS
      THEN [c |-> [c EXCEPT !.elapsed = elapsed1, !.frames = frames1], onChange |-> <<>>]
      ELSE IF FpsChanged(c._fps, fps)
      THEN [c |-> [reset EXCEPT !._fps = fps], onChange |-> <<fps>>]
      ELSE [c |-> reset, onChange |-> <<>>]

FpsNoLog ==
  [ calls |-> 0,        \* calls of the sampler so far
    acc |-> 0,          \* the time accumulated when the last call tested it
    frames |-> 0,       \* the frames counted when the last call tested them
    onChange |-> <<>>,  \* the values the last call passed to onChange
    reported |-> <<>> ] \* the values passed to onChange so far, in order

\* No sampler is in use.
FpsIdle ==
  /\ fc = NewFpsCounter([intervalMS |-> 1000, precision |-> 1])
  /\ fcLog = FpsNoLog

\* ---------------------------------------------------- ContainerInterpolator

\* part_001:541-563: the defaults of the constructor's options.
DefaultMaxCapacity == 4096

DefaultCapacity == 256

DefaultMaxDeltaPosition == 100

DefaultMaxDeltaScale == 1

DefaultMaxDeltaAlphaHalves == 1

\* The options the model constructs an interpolator with.
CIOptions ==
  { [capacity |-> 1, maxCapacity |-> 4],
    [capacity |-> 2],
    [capacity |-> 1, maxCapacity |-> 1] }

\* cfg.<name> ?? dflt
Opt(cfg, name, dflt) == IF name \in DOMAIN cfg THEN cfg[name] ELSE dflt

\* new ContainerInterpolator(cfg)
NewInterpolator(cfg) ==
  LET maxCapacity == Opt(cfg, "maxCapacity", DefaultMaxCapacity)
      capacity    == Min(Opt(cfg, "capacity", DefaultCapacity), maxCapacity)
  IN  [ maxCapacity      |-> maxCapacity,
        maxDeltaAlpha    |-> Opt(cfg, "maxDeltaAlpha", (DefaultMaxDeltaAlphaHalves * Den) \div 2),
        maxDeltaPosition |-> Opt(cfg, "maxDeltaPosition", DefaultMaxDeltaPosition * Den),
        maxDeltaRotation |-> Opt(cfg, "maxDeltaRotation", PI \div 2),
        maxDeltaScale    |-> Opt(cfg, "maxDeltaScale", DefaultMaxDeltaScale * Den),
        containers       |-> NewArray(capacity),
        capacity         |-> capacity,
        count            |-> 0,
        prevCount        |-> 0,
        start            |-> [p \in PropSet |-> NewArray(capacity)],
        end              |-> [p \in PropSet |-> NewArray(capacity)] ]

\* _$resize(capacity): new arrays, each a copy of the array the field holds.
CIResize(c, capacity) ==
  LET cap == Min(capacity, c.maxCapacity)
  IN  [c EXCEPT !.capacity = cap,
                !.start = [p \in PropSet |-> TaAllocCopy(c.start[p], cap)],
                !.end   = [p \in PropSet |-> TaAllocCopy(c.end[p], cap)]]

\* Fault injection: eligibility that does not look at container.visible.
CIIgnoresVisible(flags, n) == flags[n] # "false"

\* container.isInterpolated ?? (container.visible && !container.culled)
\* (culled is a PixiJS 7 field the model's containers do not have).
CIIsInterpolated(flags, n) ==
  IF flags[n] # "undefined" THEN flags[n] = "true" ELSE visible[n]

\* Fault injection: the children follow the container's own eligibility.
CIChildrenFollowParent(flags, n) == CIIsInterpolated(flags, n)

\* container.hasInterpolatedChildren ?? isInterpolated
CIHasInterpolatedChildren(flags, n) ==
  IF hasInterpolatedChildren[n] # "undefined"
  THEN hasInterpolatedChildren[n] = "true"
  ELSE CIIsInterpolated(flags, n)

\* The state of one capture pass: the instance (ci), the start arrays the
\* pass took references to when it began (loc), whether the instance still
\* holds those same arrays (aliased), the containers' isInterpolated flags,
\* and whether the last visit ended with the "exceeded capacity" return.
\*
\* part_001:621-653, the body of "if (isInterpolated)".
CIVisit(w, n) ==
  LET flags1 == [w.flags EXCEPT ![n] = IF @ = "undefined" THEN "true" ELSE @]
      i      == w.ci.count
      c1     == [w.ci EXCEPT !.count = i + 1]
      full   == i >= c1.capacity /\ c1.capacity >= c1.maxCapacity
      grow   == i >= c1.capacity /\ ~full
      c2     == IF grow THEN CIResize(c1, c1.capacity * 2) ELSE c1
      alias2 == w.aliased /\ ~grow
      loc2   == [p \in PropSet |-> TaSet(w.loc[p], i, val[n][p])]
      c3     == [c2 EXCEPT !.containers = ArrSet(@, i, n),
                           !.start = IF alias2 THEN loc2 ELSE @]
  IN  IF full
      THEN [w EXCEPT !.flags = flags1, !.ci = c1, !.returned = TRUE]
      ELSE [ci |-> c3, loc |-> loc2, aliased |-> alias2, flags |-> flags1,
            returned |-> FALSE]

RECURSIVE CICaptureContainers(_, _)
RECURSIVE CICaptureChildren(_, _, _)

\* part_001:605-664, captureContainers(container, depth).
CICaptureContainers(w, n) ==
  IF destroyed[n] THEN w
  ELSE LET isI   == CIIsInterpolated(w.flags, n)
           hasCh == CIHasInterpolatedChildren(w.flags, n)
           w1    == IF isI THEN CIVisit(w, n) ELSE [w EXCEPT !.returned = FALSE]
       IN  IF w1.returned THEN [w1 EXCEPT !.returned = FALSE]
           ELSE IF hasCh THEN CICaptureChildren(w1, children[n], 1)
           ELSE w1

CICaptureChildren(w, kids, k) ==
  IF k > Len(kids) THEN w
  ELSE CICaptureChildren(CICaptureContainers(w, kids[k]), kids, k + 1)

\* Fault injection: a capture that saves the count and leaves the tail of
\* the list as it is.
CIKeepTail(c) == [c EXCEPT !.prevCount = c.count]

\* part_001:666-675: release tail pointers, save the count.
CIReleaseTail(c) ==
  [c EXCEPT !.containers =
              [j \in DOMAIN @ |-> IF j >= c.count /\ j < c.prevCount THEN 0 ELSE @[j]],
            !.prevCount = c.count]

\* capture(target): the instance and the flags after the pass.
CICapture(c, target) ==
  LET w0 == [ci |-> [c EXCEPT !.count = 0], loc |-> c.start, aliased |-> TRUE,
             flags |-> isInterpolated, returned |-> FALSE]
      w1 == CICaptureContainers(w0, target)
  IN  [ci |-> CIReleaseTail(w1.ci), flags |-> w1.flags]

\* Fault injection: a blend parameter used as given.
NoClamp(t) == t

\* t = Math.min(1, Math.max(0, t))
ClampT(t) == IF t[1] < 0 THEN <<0, t[2]>> ELSE IF t[1] > t[2] THEN <<t[2], t[2]>> ELSE t

\* An option that was not given: the field holds undefined.
NoLimit == 0 - 1

\* Math.abs(delta) <= limit; a comparison with undefined is false.
WithinLimit(delta, limit) == limit # NoLimit /\ Abs(delta) <= limit

\* Fault injection: a blend that runs from the current value to the start.
LerpReversed(start, delta, t) == start + delta - MulT(delta, t)

\* start + delta * t
Lerp(start, delta, t) == start + MulT(delta, t)

\* part_001:730-770: one container of the blend loop.  (end[i] = value) - start[i]
\* subtracts from the value itself: an assignment yields its right-hand side.
CIBlendOne(c, v, i, t) ==
  LET n     == c.containers[i]
      d     == [p \in PropSet |-> v[n][p] - c.start[p][i]]
      okPos == WithinLimit(d["x"], c.maxDeltaPosition)
               /\ WithinLimit(d["y"], c.maxDeltaPosition)
      okSc  == WithinLimit(d["scaleX"], c.maxDeltaScale)
               /\ WithinLimit(d["scaleY"], c.maxDeltaScale)
      okRot == WithinLimit(d["rotation"], c.maxDeltaRotation)
      okAl  == WithinLimit(d["alpha"], c.maxDeltaAlpha)
      ok    == [p \in PropSet |->
                  CASE p \in {"x", "y"}           -> okPos
                    [] p \in {"scaleX", "scaleY"} -> okSc
                    [] p = "rotation"             -> okRot
                    [] p = "alpha"                -> okAl]
  IN  [ci  |-> [c EXCEPT !.end = [p \in PropSet |-> TaSet(@[p], i, v[n][p])]],
       val |-> [v EXCEPT ![n] = [p \in PropSet |->
                  IF ok[p] THEN Lerp(c.start[p][i], d[p], t) ELSE v[n][p]]]]

\* Fault injection: only an empty entry is skipped.
CIEmptyReference(c, i) == ArrGet(c.containers, i) = 0

\* container === undefined || container.destroyed
CIBadReference(c, i) == ArrGet(c.containers, i) = 0 \/ destroyed[ArrGet(c.containers, i)]

RECURSIVE CIBlendLoop(_, _, _, _)
\* part_001:720-771
CIBlendLoop(c, v, i, t) ==
  IF i >= c.count THEN [ci |-> c, val |-> v]
  ELSE IF CIBadReference(c, i) THEN CIBlendLoop(c, v, i + 1, t)
  ELSE LET r == CIBlendOne(c, v, i, t) IN CIBlendLoop(r.ci, r.val, i + 1, t)

\* blend(t)
CIBlend(c, v, t) == CIBlendLoop(c, v, 0, ClampT(t))

RECURSIVE CIUnblendLoop(_, _, _)
\* part_001:792-806
CIUnblendLoop(c, v, i) ==
  IF i >= c.count THEN v
  ELSE IF CIBadReference(c, i) THEN CIUnblendLoop(c, v, i + 1)
  ELSE CIUnblendLoop(c, [v EXCEPT ![c.containers[i]] = [p \in PropSet |-> c.end[p][i]]], i + 1)

\* unblend()
CIUnblend(c, v) == CIUnblendLoop(c, v, 0)

\* The containers the blend and unblend loops act on.
CITracked(c) ==
  {n \in Nodes : \E i \in 0 .. c.count - 1 : ArrGet(c.containers, i) = n /\ ~destroyed[n]}

\* The index of a tracked container.
CIIndexOf(c, n) == CHOOSE i \in 0 .. c.count - 1 : ArrGet(c.containers, i) = n

\* --------------------------------------------------------- InterpolatedTicker

\* InterpolatedTicker.ts:591
MaxUpdatesPerRenderDefault == 10

\* The options the model constructs a ticker with.  updateIntervalMs is
\* 10 ms (2 units of 5 ms); the autoLimit options are given or not.
TKDefaultOptions == [updateIntervalMs |-> 2, initialCapacity |-> 2]

TKOptions ==
  { [updateIntervalMs |-> 2, initialCapacity |-> 2,
     autoLimitPosition |-> 100 * Den, autoLimitScale |-> Den,
     autoLimitRotation |-> PI \div 4, autoLimitAlpha |-> Den \div 2],
    TKDefaultOptions }

\* InterpolatedTicker.ts:657-737, the constructor.  A destructured option
\* without a default is undefined when it is not given (lines 666-669), and
\* lines 705-708 assign it over the field's initial value.
NewTicker(opt) ==
  [ targetUpdateIntervalMs |-> opt.updateIntervalMs,
    updateIntervalMs       |-> opt.updateIntervalMs,
    accumulator            |-> 0,
    started                |-> FALSE,
    speed                  |-> 2,       \* in halves: 1.0
    maxRenderFPS           |-> NoLimit, \* -1
    maxRenderIntervalMs    |-> NoLimit, \* -1
    maxUpdatesPerRender    |-> MaxUpdatesPerRenderDefault,
    interpolation          |-> Opt(opt, "interpolation", TRUE),
    autoLimitAlpha         |-> Opt(opt, "autoLimitAlpha", NoLimit),
    autoLimitPosition      |-> Opt(opt, "autoLimitPosition", NoLimit),
    autoLimitRotation      |-> Opt(opt, "autoLimitRotation", NoLimit),
    autoLimitScale         |-> Opt(opt, "autoLimitScale", NoLimit),
    capacity               |-> opt.initialCapacity,
    idxContainers          |-> NewArray(opt.initialCapacity),
    idxContainersCount     |-> 0,
    prevIdxContainersCount |-> 0,
    maxIdx                 |-> 0,
    releasedIdx            |-> <<>>,
    prev                   |-> [p \in PropSet |-> NewArray(opt.initialCapacity)],
    shadow                 |-> [p \in PropSet |-> NewArray(opt.initialCapacity)] ]

\* Fault injection: a speed that leaves the interval alone.
TKSetSpeedUnscaled(t, halves) == [t EXCEPT !.speed = halves]

\* set speed(value), value given in halves: _updateIntervalMs = target / value
TKSetSpeed(t, halves) ==
  [t EXCEPT !.speed = halves,
            !.updateIntervalMs = (t.targetUpdateIntervalMs * 2) \div halves]

\* Fault injection: a setter that takes a negative value for its magnitude.
TKSetMaxRenderFPSMagnitude(t, value) ==
  [t EXCEPT !.maxRenderFPS = IF value = 0 THEN NoLimit ELSE Abs(value),
            !.maxRenderIntervalMs = IF value = 0 THEN NoLimit
                                    ELSE (1000 \div 5) \div Abs(value)]

\* set maxRenderFPS(value): _maxRenderFPS = value <= 0 ? -1 : value and
\* _maxRenderIntervalMs = value <= 0 ? -1 : 1000 / value, in units of 5 ms.
TKSetMaxRenderFPS(t, value) ==
  [t EXCEPT !.maxRenderFPS = IF value <= 0 THEN NoLimit ELSE value,
            !.maxRenderIntervalMs = IF value <= 0 THEN NoLimit
                                    ELSE (1000 \div 5) \div value]

\* getDefaultInterpolation(container)
GetDefaultInterpolation(n) == TRUE

\* _resizeBuffer(newCapacity)
TKResizeBuffer(t, newCapacity) ==
  [t EXCEPT !.capacity = newCapacity,
            !.prev   = [p \in PropSet |-> TaAllocCopy(t.prev[p], newCapacity)],
            !.shadow = [p \in PropSet |-> TaAllocCopy(t.shadow[p], newCapacity)]]

\* Fault injection: a release that leaves the container's slot index in
\* place.
TKMarkReleasedKeepingIndex(w, n) ==
  IF n # 0 /\ w.nd[n]._interpIdx # NoLimit
  THEN [w EXCEPT !.tk.releasedIdx = Append(@, w.nd[n]._interpIdx)]
  ELSE w

\* _markReleased(container).  A pass state w holds the ticker (tk) and the
\* containers' ticker fields (nd).
TKMarkReleased(w, n) ==
  IF n # 0 /\ w.nd[n]._interpIdx # NoLimit
  THEN [w EXCEPT !.tk.releasedIdx = Append(@, w.nd[n]._interpIdx),
                 !.nd[n]._interpIdx = NoLimit]
  ELSE w

\* InterpolatedTicker.ts:929-952: resize, take an index, store the reference point.
TKTrack(w, n) ==
  LET t1    == IF w.tk.maxIdx + 1 >= w.tk.capacity
               THEN TKResizeBuffer(w.tk, w.tk.capacity * 2) ELSE w.tk
      own   == w.nd[n]._interpIdx
      pop   == own = NoLimit /\ Len(t1.releasedIdx) > 0
      alloc == own = NoLimit /\ Len(t1.releasedIdx) = 0
      index == IF own # NoLimit THEN own
               ELSE IF pop THEN t1.releasedIdx[Len(t1.releasedIdx)]
               ELSE t1.maxIdx
      t2    == [t1 EXCEPT
                 !.releasedIdx = IF pop THEN SubSeq(@, 1, Len(@) - 1) ELSE @,
                 !.maxIdx = IF alloc THEN @ + 1 ELSE @,
                 !.prev = [p \in PropSet |-> TaSet(@[p], index, val[n][p])],
                 !.idxContainers = ArrSet(@, t1.idxContainersCount, n),
                 !.idxContainersCount = @ + 1]
  IN  [w EXCEPT !.tk = t2, !.nd[n]._interpIdx = index]

\* Fault injection: a walk over the ordinary children, whatever
\* interpolatedChildren holds.
TKOrdinaryChildren(w, n) == children[n]

\* container.interpolatedChildren ?? container.children
TKChildren(w, n) ==
  IF w.nd[n].interpolatedChildren.set THEN w.nd[n].interpolatedChildren.list
  ELSE children[n]

RECURSIVE TKTraverseSubtree(_, _)
RECURSIVE TKTraverseChildren(_, _, _)

\* Fault injection: a walk that leaves out a container whose interpolation
\* is false and goes on to its children.
TKTraverseThroughOptOut(w, n) ==
  IF destroyed[n] THEN w
  ELSE IF w.nd[n].interpolation = "false"
  THEN TKTraverseChildren(w, TKChildren(w, n), 1)
  ELSE TKTraverseChildren(TKTrack([w EXCEPT !.nd[n].interpolation = "true"], n),
                          TKChildren(w, n), 1)

\* _captureContainersTraverseSubtree(container)
TKTraverseSubtree(w, n) ==
  IF destroyed[n] THEN w
  ELSE IF w.nd[n].interpolation = "false" THEN w
  ELSE IF w.nd[n].interpolation = "undefined" /\ ~GetDefaultInterpolation(n)
  THEN [w EXCEPT !.nd[n].interpolation = "false"]
  ELSE LET w1 == [w EXCEPT !.nd[n].interpolation = "true"]
           w2 == TKTrack(w1, n)
       IN  TKTraverseChildren(w2, TKChildren(w2, n), 1)

TKTraverseChildren(w, kids, k) ==
  IF k > Len(kids) THEN w
  ELSE TKTraverseChildren(TKTraverseSubtree(w, kids[k]), kids, k + 1)

RECURSIVE TKReleaseTail(_, _)
\* InterpolatedTicker.ts:901-906
TKReleaseTail(w, i) ==
  IF i >= w.tk.prevIdxContainersCount THEN w
  ELSE LET w1 == TKMarkReleased(w, ArrGet(w.tk.idxContainers, i))
       IN  TKReleaseTail([w1 EXCEPT !.tk.idxContainers = ArrSet(@, i, 0)], i + 1)

\* _captureContainers()
TKCaptureContainers(w) ==
  LET w1 == TKTraverseSubtree([w EXCEPT !.tk.idxContainersCount = 0], Root)
      w2 == TKReleaseTail(w1, w1.tk.maxIdx)
  IN  [w2 EXCEPT !.tk.prevIdxContainersCount = w2.tk.maxIdx]

\* The JavaScript remainder a % b, which takes the sign of a.
JsRem(a, b) == IF a >= 0 THEN a % Abs(b) ELSE -((-a) % Abs(b))

\* Fault injection: a fold without the second remainder, which leaves a
\* negative remainder where it is.
WraparoundOnce(d, range) == JsRem(d + (range \div 2), range) - (range \div 2)

\* ( ( d + range / 2 ) % range + range ) % range - range / 2
Wraparound(d, range) ==
  JsRem(JsRem(d + (range \div 2), range) + range, range) - (range \div 2)

\* if ( d > Math.PI ) d -= 2 * Math.PI; else if ( d < -Math.PI ) d += 2 * Math.PI;
FoldRotation(d) == IF d > PI THEN d - 2 * PI ELSE IF d < -PI THEN d + 2 * PI ELSE d

\* InterpolatedTicker.ts:979-1064: one container of the interpolation loop.
\* w also holds the containers' properties (val).
TKInterpolateOne(w, n, factor) ==
  LET index == w.nd[n]._interpIdx
      t     == w.tk
      raw   == [p \in PropSet |-> w.val[n][p] - t.prev[p][index]]
      wrap  == w.nd[n].interpolationWraparound
      dx    == IF wrap.set THEN Wraparound(raw["x"], wrap.xRange) ELSE raw["x"]
      dy    == IF wrap.set THEN Wraparound(raw["y"], wrap.yRange) ELSE raw["y"]
      d     == [p \in PropSet |->
                  CASE p = "x" -> dx
                    [] p = "y" -> dy
                    [] p = "rotation" -> FoldRotation(raw[p])
                    [] OTHER -> raw[p]]
      okPos == WithinLimit(dx, t.autoLimitPosition) /\ WithinLimit(dy, t.autoLimitPosition)
      okSc  == WithinLimit(d["scaleX"], t.autoLimitScale)
               /\ WithinLimit(d["scaleY"], t.autoLimitScale)
      ok    == [p \in PropSet |->
                  CASE p \in {"x", "y"}           -> okPos
                    [] p \in {"scaleX", "scaleY"} -> okSc
                    [] p = "rotation" -> WithinLimit(d[p], t.autoLimitRotation)
                    [] p = "alpha"    -> WithinLimit(d[p], t.autoLimitAlpha)]
  IN  [w EXCEPT !.tk.shadow = [p \in PropSet |-> TaSet(@[p], index, w.val[n][p])],
                !.val[n] = [p \in PropSet |->
                              IF ok[p] THEN Lerp(t.prev[p][index], d[p], factor) ELSE @[p]]]

RECURSIVE TKInterpolateLoop(_, _, _)
\* InterpolatedTicker.ts:969-1065
TKInterpolateLoop(w, i, factor) ==
  IF i >= w.tk.idxContainersCount THEN w
  ELSE LET n == ArrGet(w.tk.idxContainers, i)
       IN  IF n = 0 THEN TKInterpolateLoop(w, i + 1, factor)
           ELSE IF destroyed[n] THEN TKInterpolateLoop(TKMarkReleased(w, n), i + 1, factor)
           ELSE TKInterpolateLoop(TKInterpolateOne(w, n, factor), i + 1, factor)

\* rawFactor = accumulated / _updateIntervalMs, clamped to [0, 1]
TKFactor(t, accumulated) == ClampT(<<accumulated, t.updateIntervalMs>>)

\* _interpolateContainers(accumulated)
TKInterpolateContainers(w, accumulated) ==
  IF ~w.tk.interpolation THEN w
  ELSE TKInterpolateLoop(w, 0, TKFactor(w.tk, accumulated))

RECURSIVE TKRestoreLoop(_, _)
\* InterpolatedTicker.ts:1072-1089
TKRestoreLoop(w, i) ==
  IF i >= w.tk.idxContainersCount THEN w
  ELSE LET n == ArrGet(w.tk.idxContainers, i)
       IN  IF n = 0 THEN TKRestoreLoop(w, i + 1)
           ELSE IF destroyed[n] THEN TKRestoreLoop(TKMarkReleased(w, n), i + 1)
           ELSE TKRestoreLoop(
                  [w EXCEPT !.val[n] =
                     [p \in PropSet |-> w.tk.shadow[p][w.nd[n]._interpIdx]]], i + 1)

\* _restoreContainers()
TKRestoreContainers(w) == IF ~w.tk.interpolation THEN w ELSE TKRestoreLoop(w, 0)

\* ------------------------------------------------------------------- host

\* The blend parameters the host passes: -1, 0, 1/2, 1, 2.
BlendTs == {<<-4, 4>>, <<0, 4>>, <<2, 4>>, <<4, 4>>, <<8, 4>>}

\* What the last call saw: the call (op), the blend parameter (t), the
\* properties before a blend (pre), the containers the blend acted on
\* (tracked), and the properties at the last capture (cap).
NoLog ==
  [op |-> "none", t |-> <<0, 4>>, pre |-> [n \in Nodes |-> DefaultProps], tracked |-> {},
   cap |-> [n \in Nodes |-> DefaultProps]]

\* The log after a step that is not a blend.
LogOf(op, cap) == [NoLog EXCEPT !.op = op, !.cap = cap]

\* The host writes a property of a container.
SetProp(n, p, v) ==
  /\ hostOps < MaxHostOps
  /\ ~destroyed[n]
  /\ v # val[n][p]
  /\ val' = [val EXCEPT ![n][p] = v]
  /\ hostOps' = hostOps + 1

\* Remove n from a list of children.
Without(kids, n) == SelectSeq(kids, LAMBDA k : k # n)

\* The host destroys a container: container.destroy() takes it out of its
\* parent and detaches its children.
Destroy(n) ==
  /\ hostOps < MaxHostOps
  /\ ~destroyed[n]
  /\ destroyed' = [destroyed EXCEPT ![n] = TRUE]
  /\ children' = [m \in Nodes |-> IF m = n THEN <<>> ELSE Without(children[m], n)]
  /\ hostOps' = hostOps + 1

CIHostSetProp ==
  \E n \in Scene, p \in PropSet : \E v \in PropVals(p) :
    /\ SetProp(n, p, v)
    /\ ciLog' = LogOf("host", ciLog.cap)
    /\ UNCHANGED <<destroyed, visible, children, isInterpolated, hasInterpolatedChildren,
                   calls, ci>> /\ UNCHANGED tkVars

CIHostDestroy ==
  \E n \in Scene :
    /\ Destroy(n)
    /\ ciLog' = LogOf("host", ciLog.cap)
    /\ UNCHANGED <<val, visible, isInterpolated, hasInterpolatedChildren, calls, ci>> /\ UNCHANGED tkVars

\* Fault injection: a capture that writes the stored snapshot back into the
\* containers it tracks.
CICallCaptureWritingBack ==
  LET r == CICapture(ci, Root)
  IN  /\ calls < MaxCalls
      /\ calls' = calls + 1
      /\ ci' = r.ci
      /\ isInterpolated' = r.flags
      /\ ciLog' = LogOf("capture", val)
      /\ val' = [n \in Nodes |->
                   IF \E i \in 0 .. r.ci.count - 1 : ArrGet(r.ci.containers, i) = n
                   THEN [p \in PropSet |->
                           ArrGet(r.ci.start[p],
                                  CHOOSE i \in 0 .. r.ci.count - 1 :
                                    ArrGet(r.ci.containers, i) = n)]
                   ELSE val[n]]
      /\ UNCHANGED <<destroyed, visible, children, hasInterpolatedChildren, hostOps>>
      /\ UNCHANGED tkVars

CICallCapture ==
  LET r == CICapture(ci, Root)
  IN  /\ calls < MaxCalls
      /\ calls' = calls + 1
      /\ ci' = r.ci
      /\ isInterpolated' = r.flags
      /\ ciLog' = LogOf("capture", val)
      /\ UNCHANGED <<val, destroyed, visible, children, hasInterpolatedChildren, hostOps>>
      /\ UNCHANGED tkVars

CICallBlend ==
  \E t \in BlendTs :
    LET r == CIBlend(ci, val, t)
    IN  /\ calls < MaxCalls
        /\ calls' = calls + 1
        /\ ci' = r.ci
        /\ val' = r.val
        /\ ciLog' = [op |-> "blend", t |-> t, pre |-> val, tracked |-> CITracked(ci),
                     cap |-> ciLog.cap]
        /\ UNCHANGED <<destroyed, visible, children, isInterpolated,
                       hasInterpolatedChildren, hostOps>>
        /\ UNCHANGED tkVars

CICallUnblend ==
  /\ calls < MaxCalls
  /\ calls' = calls + 1
  /\ val' = CIUnblend(ci, val)
  /\ ciLog' = [ciLog EXCEPT !.op = IF ciLog.op = "blend" THEN "blend-unblend" ELSE "unblend"]
  /\ UNCHANGED <<destroyed, visible, children, isInterpolated, hasInterpolatedChildren,
                 hostOps, ci>>
  /\ UNCHANGED tkVars

NodesInit ==
  /\ val = [n \in Nodes |-> DefaultProps]
  /\ destroyed = [n \in Nodes |-> FALSE]
  /\ visible = [n \in Nodes |-> TRUE]
  /\ children = [n \in Nodes |-> IF n = Root THEN <<2>> ELSE <<>>]
  /\ isInterpolated = [n \in Nodes |-> "undefined"]
  /\ hasInterpolatedChildren = [n \in Nodes |-> "undefined"]
  /\ hostOps = 0
  /\ calls = 0

\* ------------------------------------------------ the loop of start()

\* The frame times the model draws from, in units of 5 ms: the time between
\* one event of the host's clock (a frame or a call of start()) and the next.
Elapsed == {1, 3, 5, 24}

\* The frame times of the run that writes the containers.
SceneElapsed == {1, 3}

\* The values the host assigns to speed, in halves: 0.5, 1, 2.
Speeds == {1, 2, 4}

\* The values the host assigns to maxRenderFPS: -60, 0, 50 and 100, the
\* last two for 20 ms and 10 ms between renders.
RenderRates == {0 - 60, 0, 50, 100}

\* The delays between a stop() and the next start().
StartDelays == {0, 4}

Hooks == {"evalStart", "update", "beforeRender", "onRender", "afterRender", "evalEnd"}

TKNoLog ==
  [ phase |-> "none",      \* "none", "running", "done"
    skipped |-> FALSE,     \* the callback returned at the render limit
    a0 |-> 0,              \* _accumulator when the callback began
    e |-> 0,               \* renderDelta
    d0 |-> 0,              \* _updateIntervalMs when the callback began
    dFixed |-> TRUE,       \* speed was not assigned during the callback
    limit0 |-> NoLimit,    \* _maxRenderIntervalMs when the callback began
    sinceRender0 |-> NoLimit, \* time since the last render() when it began
    started0 |-> FALSE,    \* _started when the callback began
    updates |-> 0,         \* calls of update
    step |-> 0,            \* the argument of the last call of update
    captures |-> 0, blends |-> 0, restores |-> 0, renders |-> 0,
    hooks |-> 0,           \* calls of hooks, update included
    order |-> <<>>,        \* the calls the callback made, in order
    scheduled |-> 0,       \* calls of requestAnimationFrame
    raw |-> <<0, 1>>,      \* rawFactor of the last interpolation
    factor |-> <<0, 1>>,   \* factor of the last interpolation
    pre |-> [n \in Nodes |-> DefaultProps],  \* the properties before it
    tracked |-> {},        \* the containers it acted on
    truth |-> [n \in Nodes |-> DefaultProps],  \* the properties as the host wrote them
    metered |-> FALSE,     \* the run keeps the two totals below
    elapsed |-> 0,         \* the time that passed in the frames since start()
    total |-> 0,           \* calls of update since start()
    rate |-> <<>> ]        \* the value last assigned to maxRenderFPS, if any

NoNodeFields ==
  [ interpolation |-> "undefined",
    _interpIdx |-> NoLimit,
    interpolatedChildren |-> [set |-> FALSE, list |-> <<>>],
    interpolationWraparound |-> [set |-> FALSE, xRange |-> 0, yRange |-> 0] ]

\* Time since the last render(), after dt more.
Later(since, dt) == IF since = NoLimit THEN NoLimit ELSE Min(since + dt, 24 + 24)

\* The containers the interpolation and restore loops act on.
TKTracked(t) ==
  {n \in Nodes : \E i \in 0 .. t.idxContainersCount - 1 :
                   ArrGet(t.idxContainers, i) = n /\ ~destroyed[n]}

\* Fault injection: a frame at exactly the render interval is held back.
ThrottledInclusive(t, delta) == delta <= t.maxRenderIntervalMs

\* InterpolatedTicker.ts:787: renderDelta < this._maxRenderIntervalMs
Throttled(t, delta) == delta < t.maxRenderIntervalMs

\* requestAnimationFrame( loop ) if ( this._started )
Reschedule(t, held) == IF t.started THEN held + 1 ELSE held

\* InterpolatedTicker.ts:801-804
Accumulate(t, delta) ==
  [t EXCEPT !.accumulator =
     Min(@ + delta, t.updateIntervalMs * t.maxUpdatesPerRender)]

\* Fault injection: an update is due only beyond a whole interval.
UpdateDueStrict(t) == t.accumulator > t.updateIntervalMs

\* InterpolatedTicker.ts:811
UpdateDue(t) == t.accumulator >= t.updateIntervalMs

\* Fault injection: an update that consumes the configured interval,
\* whatever the speed.
ConsumeTarget(t) == [t EXCEPT !.accumulator = @ - t.targetUpdateIntervalMs]

\* InterpolatedTicker.ts:815
Consume(t) == [t EXCEPT !.accumulator = @ - t.updateIntervalMs]

\* The argument of update: InterpolatedTicker.ts:814
UpdateArg(t) == t.updateIntervalMs

RECURSIVE UpdatesOf(_)
\* InterpolatedTicker.ts:811-816: the calls of update the while loop makes
\* when update leaves the ticker alone.
UpdatesOf(t) == IF UpdateDue(t) THEN 1 + UpdatesOf(Consume(t)) ELSE 0

\* InterpolatedTicker.ts:801-816: the calls of update in a callback of the
\* loop that begins with an empty accumulator, at a speed, delta after the
\* last one.
DueUpdates(t, halves, delta) ==
  UpdatesOf(Accumulate(TKSetSpeed([t EXCEPT !.accumulator = 0], halves), delta))

\* ticker.start()
TKStart ==
  \E dt \in StartDelays :
    /\ host = "InterpolatedTicker" /\ pc = "idle"
    /\ calls < MaxTickerCalls
    /\ calls' = calls + 1
    /\ IF tk.started
       THEN UNCHANGED <<tk, sincePrev, pending, sinceRender>>
       ELSE /\ tk' = [tk EXCEPT !.started = TRUE]
            /\ sincePrev' = 0
            /\ pending' = pending + 1
            /\ sinceRender' = Later(sinceRender, dt)
    /\ UNCHANGED <<nodeVars, hostOps, ci, ciLog, host, fc, fcLog, nd, pc, renderDelta, frames, tlog>>

\* ticker.stop(), between frames or from the update callback
TKStop ==
  /\ host = "InterpolatedTicker" /\ pc \in {"idle", "update"}
  /\ calls < MaxTickerCalls
  /\ calls' = calls + 1
  /\ tk' = [tk EXCEPT !.started = FALSE]
  /\ UNCHANGED <<nodeVars, hostOps, ci, ciLog, host, fc, fcLog, nd, pc, pending, renderDelta,
                 sincePrev, sinceRender, frames, tlog>>

\* ticker.speed = value, between frames or from the update callback
TKHostSetSpeed ==
  \E halves \in Speeds \ {tk.speed} :
    /\ host = "InterpolatedTicker" /\ pc \in {"idle", "update"}
    /\ calls < MaxTickerCalls
    /\ calls' = calls + 1
    /\ tk' = TKSetSpeed(tk, halves)
    /\ tlog' = IF pc = "idle" THEN tlog ELSE [tlog EXCEPT !.dFixed = FALSE]
    /\ UNCHANGED <<nodeVars, hostOps, ci, ciLog, host, fc, fcLog, nd, pc, pending, renderDelta,
                   sincePrev, sinceRender, frames>>

\* ticker.maxRenderFPS = value, between frames
TKHostSetMaxRenderFPS ==
  \E value \in RenderRates :
    /\ host = "InterpolatedTicker" /\ pc = "idle"
    /\ calls < MaxTickerCalls
    /\ TKSetMaxRenderFPS(tk, value) # tk
    /\ calls' = calls + 1
    /\ tk' = TKSetMaxRenderFPS(tk, value)
    /\ tlog' = [tlog EXCEPT !.rate = <<value>>]
    /\ UNCHANGED <<nodeVars, hostOps, ci, ciLog, host, fc, fcLog, nd, pc, pending, renderDelta,
                   sincePrev, sinceRender, frames>>

\* The host writes a property, between frames or from the update callback.
TKHostSetProp ==
  \E n \in Scene, p \in PropSet : \E v \in PropVals(p) :
    /\ host = "InterpolatedTicker" /\ pc \in {"idle", "update"}
    /\ SetProp(n, p, v)
    /\ tlog' = [tlog EXCEPT !.truth[n][p] = v]
    /\ UNCHANGED <<destroyed, visible, children, isInterpolated, hasInterpolatedChildren,
                   calls, ci, ciLog>>
    /\ UNCHANGED <<host, fc, fcLog, tk, nd, pc, pending, renderDelta, sincePrev, sinceRender, frames>>

\* The values the host assigns to the interpolation switch.
Switches == {FALSE}

\* ticker.interpolation = value, from the onRender hook
TKHostSetInterpolation ==
  \E value \in Switches \ {tk.interpolation} :
    /\ host = "InterpolatedTicker" /\ pc = "onRender"
    /\ calls < MaxTickerCalls
    /\ calls' = calls + 1
    /\ tk' = [tk EXCEPT !.interpolation = value]
    /\ UNCHANGED <<nodeVars, hostOps, ci, ciLog, host, fc, fcLog, nd, pc, pending, renderDelta,
                   sincePrev, sinceRender, frames, tlog>>

\* The host destroys a container, between frames or from the update callback.
TKHostDestroy ==
  \E n \in Scene :
    /\ host = "InterpolatedTicker" /\ pc \in {"idle", "update"}
    /\ Destroy(n)
    /\ UNCHANGED <<val, visible, isInterpolated, hasInterpolatedChildren, calls, ci, ciLog>>
    /\ UNCHANGED tkVars

\* stage.removeChild( n ), between frames or from the update callback: the
\* container leaves the scene and is not destroyed.
TKHostRemoveChild ==
  \E n \in Nodes \ {Root} :
    /\ host = "InterpolatedTicker" /\ pc \in {"idle", "update"}
    /\ hostOps < MaxHostOps
    /\ \E k \in 1 .. Len(children[Root]) : children[Root][k] = n
    /\ children' = [children EXCEPT ![Root] = Without(@, n)]
    /\ hostOps' = hostOps + 1
    /\ UNCHANGED <<val, destroyed, visible, isInterpolated, hasInterpolatedChildren,
                   calls, ci, ciLog>>
    /\ UNCHANGED tkVars

\* stage.addChild( n ), between frames or from the update callback, for a
\* container that is in no scene.
TKHostAddChild ==
  \E n \in Nodes \ {Root} :
    /\ host = "InterpolatedTicker" /\ pc \in {"idle", "update"}
    /\ hostOps < MaxHostOps
    /\ ~destroyed[n]
    /\ \A m \in Nodes : \A k \in 1 .. Len(children[m]) : children[m][k] # n
    /\ children' = [children EXCEPT ![Root] = Append(@, n)]
    /\ hostOps' = hostOps + 1
    /\ UNCHANGED <<val, destroyed, visible, isInterpolated, hasInterpolatedChildren,
                   calls, ci, ciLog>>
    /\ UNCHANGED tkVars

\* Fault injection: a callback that returns at the render limit and takes
\* the time of its call as the new baseline.
TKFrameRebased(dt) ==
  LET delta == sincePrev + dt
      log0  == [TKNoLog EXCEPT !.phase = "running", !.a0 = tk.accumulator, !.e = delta,
                               !.d0 = tk.updateIntervalMs,
                               !.limit0 = tk.maxRenderIntervalMs,
                               !.sinceRender0 = Later(sinceRender, dt),
                               !.started0 = tk.started,
                               !.truth = tlog.truth,
                               !.metered = tlog.metered,
                               !.elapsed = IF tlog.metered THEN tlog.elapsed + dt ELSE 0,
                               !.total = tlog.total,
                               !.rate = tlog.rate]
  IN  /\ host = "InterpolatedTicker" /\ pc = "idle"
      /\ pending > 0
      /\ frames < MaxFrames
      /\ frames' = frames + 1
      /\ sincePrev' = IF Throttled(tk, delta) THEN 0 ELSE delta
      /\ sinceRender' = Later(sinceRender, dt)
      /\ renderDelta' = delta
      /\ IF Throttled(tk, delta)
         THEN /\ pending' = Reschedule(tk, pending - 1)
              /\ pc' = "idle"
              /\ tlog' = [log0 EXCEPT !.phase = "done", !.skipped = TRUE,
                                      !.scheduled = Reschedule(tk, 0)]
         ELSE /\ pending' = pending - 1
              /\ pc' = "evalStart"
              /\ tlog' = [log0 EXCEPT !.hooks = 1, !.order = <<"evalStart">>]
      /\ UNCHANGED <<nodeVars, hostOps, calls, ci, ciLog, host, fc, fcLog, tk, nd>>

\* InterpolatedTicker.ts:781-797: a callback of the loop begins dt after the
\* last event; it returns at the render limit or calls evalStart.
TKFrame(dt) ==
  LET delta == sincePrev + dt
      log0  == [TKNoLog EXCEPT !.phase = "running", !.a0 = tk.accumulator, !.e = delta,
                               !.d0 = tk.updateIntervalMs,
                               !.limit0 = tk.maxRenderIntervalMs,
                               !.sinceRender0 = Later(sinceRender, dt),
                               !.started0 = tk.started,
                               !.truth = tlog.truth,
                               !.metered = tlog.metered,
                               !.elapsed = IF tlog.metered THEN tlog.elapsed + dt ELSE 0,
                               !.total = tlog.total,
                               !.rate = tlog.rate]
  IN  /\ host = "InterpolatedTicker" /\ pc = "idle"
      /\ pending > 0
      /\ frames < MaxFrames
      /\ frames' = frames + 1
      /\ sincePrev' = delta
      /\ sinceRender' = Later(sinceRender, dt)
      /\ renderDelta' = delta
      /\ IF Throttled(tk, delta)
         THEN /\ pending' = Reschedule(tk, pending - 1)
              /\ pc' = "idle"
              /\ tlog' = [log0 EXCEPT !.phase = "done", !.skipped = TRUE,
                                      !.scheduled = Reschedule(tk, 0)]
         ELSE /\ pending' = pending - 1
              /\ pc' = "evalStart"
              /\ tlog' = [log0 EXCEPT !.hooks = 1, !.order = <<"evalStart">>]
      /\ UNCHANGED <<nodeVars, hostOps, calls, ci, ciLog, host, fc, fcLog, tk, nd>>

\* Fault injection: the containers are restored before they are rendered.
RenderFrameRestoredFirst ==
  <<"beforeRender", "blend", "onRender", "restore", "render", "afterRender">>

\* InterpolatedTicker.ts:823-828: the calls of the render frame, in the
\* order of the statements; "blend" is _interpolateContainers, "render" is
\* renderer.render( stage ), "restore" is _restoreContainers.
RenderFrame ==
  <<"beforeRender", "blend", "onRender", "render", "restore", "afterRender">>

\* Fault injection: a loop that calls update without capturing the
\* containers first.
LoopHeadUncaptured(t) ==
  /\ tk' = t
  /\ nd' = nd
  /\ IF UpdateDue(t)
     THEN /\ pc' = "update"
          /\ tlog' = [tlog EXCEPT !.updates = @ + 1, !.hooks = @ + 1,
                                  !.step = UpdateArg(t),
                                  !.order = Append(@, "update"),
                                  !.total = IF tlog.metered THEN @ + 1 ELSE @]
     ELSE /\ pc' = "beforeRender"
          /\ tlog' = [tlog EXCEPT !.hooks = @ + 1,
                                  !.order = @ \o SubSeq(RenderFrame, 1, 1)]

\* InterpolatedTicker.ts:811-822: the head of the while loop.  With an update
\* due the containers are captured and update is called; otherwise
\* beforeRender is called.
LoopHead(t) ==
  IF UpdateDue(t)
  THEN LET w == TKCaptureContainers([tk |-> t, nd |-> nd])
       IN  /\ tk' = w.tk
           /\ nd' = w.nd
           /\ pc' = "update"
           /\ tlog' = [tlog EXCEPT !.updates = @ + 1, !.captures = @ + 1,
                                   !.hooks = @ + 1, !.step = UpdateArg(t),
                                   !.order = @ \o <<"capture", "update">>,
                                   !.total = IF tlog.metered THEN @ + 1 ELSE @]
  ELSE /\ tk' = t
       /\ nd' = nd
       /\ pc' = "beforeRender"
       /\ tlog' = [tlog EXCEPT !.hooks = @ + 1,
                               !.order = @ \o SubSeq(RenderFrame, 1, 1)]

\* evalStart returns: InterpolatedTicker.ts:799-811
TKReturnEvalStart ==
  /\ host = "InterpolatedTicker" /\ pc = "evalStart"
  /\ sincePrev' = 0
  /\ LoopHead(Accumulate(tk, renderDelta))
  /\ UNCHANGED <<nodeVars, hostOps, calls, ci, ciLog, host, fc, fcLog, pending, renderDelta,
                 sinceRender, frames>>

\* update returns: InterpolatedTicker.ts:815, 811
TKReturnUpdate ==
  /\ host = "InterpolatedTicker" /\ pc = "update"
  /\ LoopHead(Consume(tk))
  /\ UNCHANGED <<nodeVars, hostOps, calls, ci, ciLog, host, fc, fcLog, pending, renderDelta,
                 sincePrev, sinceRender, frames>>

\* beforeRender returns: InterpolatedTicker.ts:823-824
TKReturnBeforeRender ==
  LET w == TKInterpolateContainers([tk |-> tk, nd |-> nd, val |-> val], tk.accumulator)
  IN  /\ host = "InterpolatedTicker" /\ pc = "beforeRender"
      /\ tk' = w.tk
      /\ nd' = w.nd
      /\ val' = w.val
      /\ pc' = "onRender"
      /\ tlog' = [tlog EXCEPT !.hooks = @ + 1,
                              !.order = @ \o SubSeq(RenderFrame, 2, 3),
                              !.blends = IF tk.interpolation THEN @ + 1 ELSE @,
                              !.raw = <<tk.accumulator, tk.updateIntervalMs>>,
                              !.factor = TKFactor(tk, tk.accumulator),
                              !.pre = val,
                              !.tracked = TKTracked(tk)]
      /\ UNCHANGED <<destroyed, visible, children, isInterpolated, hasInterpolatedChildren,
                     hostOps, calls, ci, ciLog, host, fc, fcLog, pending, renderDelta,
                     sincePrev, sinceRender, frames>>

\* onRender returns: InterpolatedTicker.ts:825-827
TKReturnOnRender ==
  LET w == TKRestoreContainers([tk |-> tk, nd |-> nd, val |-> val])
  IN  /\ host = "InterpolatedTicker" /\ pc = "onRender"
      /\ sinceRender' = 0
      /\ tk' = w.tk
      /\ nd' = w.nd
      /\ val' = w.val
      /\ pc' = "afterRender"
      /\ tlog' = [tlog EXCEPT !.hooks = @ + 1, !.renders = @ + 1,
                              !.order = @ \o SubSeq(RenderFrame, 4, 6),
                              !.restores = IF tk.interpolation THEN @ + 1 ELSE @]
      /\ UNCHANGED <<destroyed, visible, children, isInterpolated, hasInterpolatedChildren,
                     hostOps, calls, ci, ciLog, host, fc, fcLog, pending, renderDelta,
                     sincePrev, frames>>

\* afterRender returns: InterpolatedTicker.ts:828-831
TKReturnAfterRender ==
  /\ host = "InterpolatedTicker" /\ pc = "afterRender"
  /\ pc' = "evalEnd"
  /\ tlog' = [tlog EXCEPT !.hooks = @ + 1, !.order = Append(@, "evalEnd")]
  /\ UNCHANGED <<nodeVars, hostOps, calls, ci, ciLog, host, fc, fcLog, tk, nd, pending, renderDelta,
                 sincePrev, sinceRender, frames>>

\* evalEnd returns: InterpolatedTicker.ts:833-836
TKReturnEvalEnd ==
  /\ host = "InterpolatedTicker" /\ pc = "evalEnd"
  /\ pc' = "idle"
  /\ pending' = Reschedule(tk, pending)
  /\ tlog' = [tlog EXCEPT !.phase = "done", !.scheduled = Reschedule(tk, 0)]
  /\ UNCHANGED <<nodeVars, hostOps, calls, ci, ciLog, host, fc, fcLog, tk, nd, renderDelta,
                 sincePrev, sinceRender, frames>>

TKReturns ==
  \/ TKReturnEvalStart
  \/ TKReturnUpdate
  \/ TKReturnBeforeRender
  \/ TKReturnOnRender
  \/ TKReturnAfterRender
  \/ TKReturnEvalEnd

TKIdle ==
  /\ host = "ContainerInterpolator"
  /\ FpsIdle
  /\ tk = NewTicker(TKDefaultOptions)
  /\ nd = [n \in Nodes |-> NoNodeFields]
  /\ pc = "idle"
  /\ pending = 0
  /\ renderDelta = 0
  /\ sincePrev = 0
  /\ sinceRender = NoLimit
  /\ frames = 0
  /\ tlog = TKNoLog

CIInit ==
  /\ NodesInit
  /\ \E cfg \in CIOptions : ci = NewInterpolator(cfg)
  /\ ciLog = NoLog
  /\ TKIdle

CINext ==
  /\ host = "ContainerInterpolator"
  /\ \/ CIHostSetProp
     \/ CIHostDestroy
     \/ CICallCapture
     \/ CICallBlend
     \/ CICallUnblend

\* A host that uses a ContainerInterpolator directly.
SpecCI == CIInit /\ [][CINext]_vars

\* The scenes of three containers: two children of the stage, or a child
\* with a child of its own.
TreeShapes ==
  { [n \in Nodes |-> IF n = Root THEN <<2, 3>> ELSE <<>>],
    [n \in Nodes |-> IF n = Root THEN <<2>> ELSE IF n = 2 THEN <<3>> ELSE <<>>] }

\* The flags the host gives the stage and its first child; the last
\* container keeps undefined flags.
TreeFlags ==
  { f \in [Nodes -> [isInterpolated : {"undefined", "false"},
                     hasInterpolatedChildren : {"undefined", "true", "false"}]] :
      /\ f[2].hasInterpolatedChildren = "undefined"
      /\ f[3] = [isInterpolated |-> "undefined", hasInterpolatedChildren |-> "undefined"] }

\* The options of the interpolator of such a scene: room for all, room for
\* two after growth, room for two.
TreeOptions ==
  { [capacity |-> 4],
    [capacity |-> 1, maxCapacity |-> 2],
    [capacity |-> 2, maxCapacity |-> 2] }

\* The positions the host moves a container to: 50 and 99.5.
Positions == {800, 1592}

\* The host moves a container of the scene along x.
CIHostMove ==
  \E n \in Nodes, v \in Positions :
    /\ SetProp(n, "x", v)
    /\ ciLog' = LogOf("host", ciLog.cap)
    /\ UNCHANGED <<destroyed, visible, children, isInterpolated, hasInterpolatedChildren,
                   calls, ci>> /\ UNCHANGED tkVars

CITreeInit ==
  /\ val = [n \in Nodes |-> DefaultProps]
  /\ destroyed = [n \in Nodes |-> FALSE]
  /\ visible = [n \in Nodes |-> TRUE]
  /\ children \in TreeShapes
  /\ \E f \in TreeFlags :
       /\ isInterpolated = [n \in Nodes |-> f[n].isInterpolated]
       /\ hasInterpolatedChildren = [n \in Nodes |-> f[n].hasInterpolatedChildren]
  /\ hostOps = 0
  /\ calls = 0
  /\ \E cfg \in TreeOptions : ci = NewInterpolator(cfg)
  /\ ciLog = NoLog
  /\ TKIdle

CITreeNext ==
  /\ host = "ContainerInterpolator"
  /\ \/ CIHostMove
     \/ CICallCapture
     \/ CICallBlend
     \/ CICallUnblend

\* A host that uses a ContainerInterpolator on a scene of three containers
\* with eligibility flags.
SpecCITree == CITreeInit /\ [][CITreeNext]_vars

\* The host shows or hides a container of the scene (container.visible).
CIHostSetVisible ==
  \E n \in Scene :
    /\ hostOps < MaxHostOps
    /\ ~destroyed[n]
    /\ visible' = [visible EXCEPT ![n] = ~@]
    /\ hostOps' = hostOps + 1
    /\ ciLog' = LogOf("host", ciLog.cap)
    /\ UNCHANGED <<val, destroyed, children, isInterpolated, hasInterpolatedChildren,
                   calls, ci>> /\ UNCHANGED tkVars

CIVisibleNext ==
  /\ host = "ContainerInterpolator"
  /\ \/ CIHostSetVisible
     \/ CIHostMove
     \/ CICallCapture
     \/ CICallBlend
     \/ CICallUnblend

\* A host that uses a ContainerInterpolator on a stage with one child, and
\* shows and hides the two between the calls.
SpecCIVisible == CIInit /\ [][CIVisibleNext]_vars

TKInit ==
  /\ NodesInit
  /\ ci = NewInterpolator([capacity |-> 1])
  /\ ciLog = NoLog
  /\ host = "InterpolatedTicker"
  /\ FpsIdle
  /\ \E opt \in TKOptions : tk = NewTicker(opt)
  /\ nd = [n \in Nodes |-> NoNodeFields]
  /\ pc = "idle"
  /\ pending = 0
  /\ renderDelta = 0
  /\ sincePrev = 0
  /\ sinceRender = NoLimit
  /\ frames = 0
  /\ tlog = TKNoLog

\* A host that starts, stops and tunes a ticker over a scene it leaves alone.
TKNext ==
  \/ TKStart
  \/ TKStop
  \/ TKHostSetSpeed
  \/ TKHostSetMaxRenderFPS
  \/ \E dt \in Elapsed : TKFrame(dt)
  \/ TKReturns

SpecTK == TKInit /\ [][TKNext]_vars

\* A host that runs a ticker and writes the scene.
SceneNext ==
  \/ TKStart
  \/ TKHostSetProp
  \/ TKHostDestroy
  \/ TKHostSetInterpolation
  \/ \E dt \in SceneElapsed : TKFrame(dt)
  \/ TKReturns

SpecScene == TKInit /\ [][SceneNext]_vars

\* A host that runs a ticker and takes containers out of the scene and puts
\* containers into it.
TreeNext ==
  \/ TKStart
  \/ TKHostRemoveChild
  \/ TKHostAddChild
  \/ \E dt \in SceneElapsed : TKFrame(dt)
  \/ TKReturns

SpecTree == TKInit /\ [][TreeNext]_vars

\* The options of a ticker constructed with interpolation: false.
SwitchedOffOptions ==
  { [updateIntervalMs |-> 2, initialCapacity |-> 2, interpolation |-> FALSE,
     autoLimitPosition |-> 100 * Den, autoLimitScale |-> Den,
     autoLimitRotation |-> PI \div 4, autoLimitAlpha |-> Den \div 2] }

SwitchedOffInit ==
  /\ NodesInit
  /\ ci = NewInterpolator([capacity |-> 1])
  /\ ciLog = NoLog
  /\ host = "InterpolatedTicker"
  /\ FpsIdle
  /\ \E opt \in SwitchedOffOptions : tk = NewTicker(opt)
  /\ nd = [n \in Nodes |-> NoNodeFields]
  /\ pc = "idle"
  /\ pending = 0
  /\ renderDelta = 0
  /\ sincePrev = 0
  /\ sinceRender = NoLimit
  /\ frames = 0
  /\ tlog = TKNoLog

SwitchedOffNext ==
  \/ TKStart
  \/ TKHostSetProp
  \/ \E dt \in SceneElapsed : TKFrame(dt)
  \/ TKReturns

\* A host that runs a ticker constructed with interpolation: false and
\* writes the scene.
SpecSwitchedOff == SwitchedOffInit /\ [][SwitchedOffNext]_vars

\* The host moves a container along x, between frames or from the update
\* callback.
TKHostMove ==
  \E n \in Nodes, v \in Positions :
    /\ host = "InterpolatedTicker" /\ pc \in {"idle", "update"}
    /\ SetProp(n, "x", v)
    /\ tlog' = [tlog EXCEPT !.truth[n]["x"] = v]
    /\ UNCHANGED <<destroyed, visible, children, isInterpolated, hasInterpolatedChildren,
                   calls, ci, ciLog>>
    /\ UNCHANGED <<host, fc, fcLog, tk, nd, pc, pending, renderDelta, sincePrev, sinceRender, frames>>

\* container.interpolation = false, between frames.
TKHostOptOut ==
  \E n \in Nodes :
    /\ host = "InterpolatedTicker" /\ pc = "idle"
    /\ hostOps < MaxHostOps
    /\ nd[n].interpolation # "false"
    /\ nd' = [nd EXCEPT ![n].interpolation = "false"]
    /\ hostOps' = hostOps + 1
    /\ UNCHANGED <<val, destroyed, visible, children, isInterpolated,
                   hasInterpolatedChildren, calls, ci, ciLog>>
    /\ UNCHANGED <<host, fc, fcLog, tk, pc, pending, renderDelta, sincePrev, sinceRender, frames, tlog>>

\* The containers the host has given interpolation = false before the
\* ticker is constructed.
OptedOut == SUBSET Nodes

OptOutInit ==
  /\ val = [n \in Nodes |-> DefaultProps]
  /\ destroyed = [n \in Nodes |-> FALSE]
  /\ visible = [n \in Nodes |-> TRUE]
  /\ children \in TreeShapes
  /\ isInterpolated = [n \in Nodes |-> "undefined"]
  /\ hasInterpolatedChildren = [n \in Nodes |-> "undefined"]
  /\ hostOps = 0
  /\ calls = 0
  /\ ci = NewInterpolator([capacity |-> 1])
  /\ ciLog = NoLog
  /\ host = "InterpolatedTicker"
  /\ FpsIdle
  /\ \E opt \in TKOptions : tk = NewTicker(opt)
  /\ \E off \in OptedOut :
       nd = [n \in Nodes |->
               [NoNodeFields EXCEPT !.interpolation =
                                      IF n \in off THEN "false" ELSE "undefined"]]
  /\ pc = "idle"
  /\ pending = 0
  /\ renderDelta = 0
  /\ sincePrev = 0
  /\ sinceRender = NoLimit
  /\ frames = 0
  /\ tlog = TKNoLog

OptOutNext ==
  \/ TKStart
  \/ TKHostMove
  \/ TKHostOptOut
  \/ \E dt \in SceneElapsed : TKFrame(dt)
  \/ TKReturns

\* A host that runs a ticker over a scene of three containers, some of them
\* with interpolation = false, and moves them.
SpecOptOut == OptOutInit /\ [][OptOutNext]_vars

SlotsNext ==
  \/ TKStart
  \/ TKHostRemoveChild
  \/ TKHostAddChild
  \/ TKHostDestroy
  \/ \E dt \in SceneElapsed : TKFrame(dt)
  \/ TKReturns

\* A host that runs a ticker and adds, removes and destroys containers.
SpecSlots == TKInit /\ [][SlotsNext]_vars

\* The options of a ticker constructed with the autoLimit options given.
LimitedOptions == {opt \in TKOptions : "autoLimitPosition" \in DOMAIN opt}

\* The values the host gives interpolationWraparound: unset, 100 by 100 and
\* 200 by 100.
WrapRanges ==
  { [set |-> FALSE, xRange |-> 0, yRange |-> 0],
    [set |-> TRUE, xRange |-> 100 * Den, yRange |-> 100 * Den],
    [set |-> TRUE, xRange |-> 200 * Den, yRange |-> 100 * Den] }

WrapInit ==
  /\ NodesInit
  /\ ci = NewInterpolator([capacity |-> 1])
  /\ ciLog = NoLog
  /\ host = "InterpolatedTicker"
  /\ FpsIdle
  /\ \E opt \in LimitedOptions : tk = NewTicker(opt)
  /\ \E wrap \in WrapRanges :
       nd = [n \in Nodes |->
               IF n = Root THEN NoNodeFields
               ELSE [NoNodeFields EXCEPT !.interpolationWraparound = wrap]]
  /\ pc = "idle"
  /\ pending = 0
  /\ renderDelta = 0
  /\ sincePrev = 0
  /\ sinceRender = NoLimit
  /\ frames = 0
  /\ tlog = TKNoLog

WrapNext ==
  \/ TKStart
  \/ TKHostSetProp
  \/ \E dt \in SceneElapsed : TKFrame(dt)
  \/ TKReturns

\* A host that runs a ticker over a stage without interpolationWraparound
\* and a child with or without it, and writes the scene.
SpecWrap == WrapInit /\ [][WrapNext]_vars

CIShrinkNext ==
  /\ host = "ContainerInterpolator"
  /\ \/ CIHostDestroy
     \/ CIHostMove
     \/ CICallCapture
     \/ CICallBlend
     \/ CICallUnblend

\* A host that uses a ContainerInterpolator on a scene of three containers
\* with eligibility flags, and destroys containers between the calls.
SpecCIShrink == CITreeInit /\ [][CIShrinkNext]_vars

\* The values the host gives the stage's interpolatedChildren: unset, none,
\* one of the two other containers, both in reverse.
OverrideLists ==
  { [set |-> FALSE, list |-> <<>>],
    [set |-> TRUE, list |-> <<>>],
    [set |-> TRUE, list |-> <<2>>],
    [set |-> TRUE, list |-> <<3>>],
    [set |-> TRUE, list |-> <<3, 2>>] }

\* stage.interpolatedChildren = list, between frames.
TKHostSetInterpolatedChildren ==
  \E list \in OverrideLists \ {nd[Root].interpolatedChildren} :
    /\ host = "InterpolatedTicker" /\ pc = "idle"
    /\ hostOps < MaxHostOps
    /\ nd' = [nd EXCEPT ![Root].interpolatedChildren = list]
    /\ hostOps' = hostOps + 1
    /\ UNCHANGED <<val, destroyed, visible, children, isInterpolated,
                   hasInterpolatedChildren, calls, ci, ciLog>>
    /\ UNCHANGED <<host, fc, fcLog, tk, pc, pending, renderDelta, sincePrev, sinceRender, frames, tlog>>

OverrideInit ==
  /\ val = [n \in Nodes |-> DefaultProps]
  /\ destroyed = [n \in Nodes |-> FALSE]
  /\ visible = [n \in Nodes |-> TRUE]
  /\ children \in TreeShapes
  /\ isInterpolated = [n \in Nodes |-> "undefined"]
  /\ hasInterpolatedChildren = [n \in Nodes |-> "undefined"]
  /\ hostOps = 0
  /\ calls = 0
  /\ ci = NewInterpolator([capacity |-> 1])
  /\ ciLog = NoLog
  /\ host = "InterpolatedTicker"
  /\ FpsIdle
  /\ \E opt \in LimitedOptions : tk = NewTicker(opt)
  /\ \E list \in OverrideLists :
       nd = [n \in Nodes |->
               IF n = Root THEN [NoNodeFields EXCEPT !.interpolatedChildren = list]
               ELSE NoNodeFields]
  /\ pc = "idle"
  /\ pending = 0
  /\ renderDelta = 0
  /\ sincePrev = 0
  /\ sinceRender = NoLimit
  /\ frames = 0
  /\ tlog = TKNoLog

OverrideNext ==
  \/ TKStart
  \/ TKHostMove
  \/ TKHostSetInterpolatedChildren
  \/ \E dt \in SceneElapsed : TKFrame(dt)
  \/ TKReturns

\* A host that runs a ticker over a scene of three containers, gives the
\* stage an interpolatedChildren list or none, and moves the containers.
SpecOverride == OverrideInit /\ [][OverrideNext]_vars

ThrottleInit ==
  /\ NodesInit
  /\ ci = NewInterpolator([capacity |-> 1])
  /\ ciLog = NoLog
  /\ host = "InterpolatedTicker"
  /\ FpsIdle
  /\ \E opt \in TKOptions : tk = NewTicker(opt)
  /\ nd = [n \in Nodes |-> NoNodeFields]
  /\ pc = "idle"
  /\ pending = 0
  /\ renderDelta = 0
  /\ sincePrev = 0
  /\ sinceRender = NoLimit
  /\ frames = 0
  /\ tlog = [TKNoLog EXCEPT !.metered = TRUE]

ThrottleNext ==
  \/ TKStart
  \/ TKHostSetMaxRenderFPS
  \/ \E dt \in Elapsed : TKFrame(dt)
  \/ TKReturns

\* A host that starts a ticker once and changes its render limit between
\* frames; the run keeps the totals of time and of update calls.
SpecThrottle == ThrottleInit /\ [][ThrottleNext]_vars

FpsInit ==
  /\ NodesInit
  /\ ci = NewInterpolator([capacity |-> 1])
  /\ ciLog = NoLog
  /\ host = "fpsCounter"
  /\ tk = NewTicker(TKDefaultOptions)
  /\ nd = [n \in Nodes |-> NoNodeFields]
  /\ pc = "idle"
  /\ pending = 0
  /\ renderDelta = 0
  /\ sincePrev = 0
  /\ sinceRender = NoLimit
  /\ frames = 0
  /\ tlog = TKNoLog
  /\ \E options \in FpsOptions : fc = NewFpsCounter(options)
  /\ fcLog = FpsNoLog

\* The host calls the sampler with the time of a frame.
FpsTrackFrame ==
  \E deltaMS \in FrameTimes :
    LET r == TrackFrame(fc, deltaMS)
    IN  /\ host = "fpsCounter"
        /\ fcLog.calls < MaxSamplerCalls
        /\ fc' = r.c
        /\ fcLog' = [ calls |-> fcLog.calls + 1,
                      acc |-> fc.elapsed + deltaMS,
                      frames |-> fc.frames + 1,
                      onChange |-> r.onChange,
                      reported |-> fcLog.reported \o r.onChange ]
        /\ UNCHANGED <<nodeVars, hostOps, calls, ci, ciLog, host, tk, nd, pc, pending,
                       renderDelta, sincePrev, sinceRender, frames, tlog>>

FpsNext == FpsTrackFrame

\* A host that feeds frame times to the sampler fpsCounter returned.
SpecFps == FpsInit /\ [][FpsNext]_vars

\* ------------------------------------------------------------------ claims

\* A value that single precision holds exactly.
Single(v) == Fround(v) = v

\* The blend parameter a call of blend(t) uses.
Clamped(t) == IF t[1] < 0 THEN <<0, 1>> ELSE IF t[1] > t[2] THEN <<1, 1>> ELSE t

\* s + (c - s) * t
Blended(s, c, t) == s + ((c - s) * t[1]) \div t[2]

\* The other coordinate of a pair the blend treats as one.
Paired(p) ==
  CASE p = "x" -> "y" [] p = "y" -> "x"
    [] p = "scaleX" -> "scaleY" [] p = "scaleY" -> "scaleX"
    [] OTHER -> p

\* The limit of a property of the interpolator.
LimitOf(c, p) ==
  CASE p \in {"x", "y"} -> c.maxDeltaPosition
    [] p \in {"scaleX", "scaleY"} -> c.maxDeltaScale
    [] p = "rotation" -> c.maxDeltaRotation
    [] p = "alpha" -> c.maxDeltaAlpha

\* The start value the interpolator holds for a tracked container.
StartOf(c, n, p) == c.start[p][CIIndexOf(c, n)]

\* C1: after capture, any changes, blend(t) and unblend(), each of the six
\* properties of every tracked container that was not destroyed equals the
\* value it had immediately before the blend.
C1_RoundTrip ==
  ciLog.op = "blend-unblend" =>
    \A n \in ciLog.tracked : \A p \in PropSet : val[n][p] = ciLog.pre[n][p]

C3_ClampedBlend ==
  (ciLog.op = "blend" /\ (ciLog.t[1] < 0 \/ ciLog.t[1] > ciLog.t[2])) =>
    val = CIBlendLoop(ci, ciLog.pre, 0, Clamped(ciLog.t)).val

\* A blend with t = -1 took x of a container that had moved from 0 to 99.5,
\* within the limits, back to 0.
C3_Witness ==
  /\ ciLog.op = "blend" /\ ciLog.t = <<-4, 4>>
  /\ \E n \in ciLog.tracked :
       /\ ciLog.cap[n]["x"] = 0 /\ StartOf(ci, n, "x") = 0
       /\ ciLog.pre[n]["x"] = 1592
       /\ val[n]["x"] = 0

\* C4: if between capture and blend the position of a tracked container
\* changed by more than maxDeltaPosition, blend(0.5) leaves the position at
\* its current value; if it changed by less, and not by zero, blend(0.5)
\* writes the position half way.  Stated for positions that single
\* precision holds exactly.
C4_PositionCutOff ==
  (ciLog.op = "blend" /\ ciLog.t = <<2, 4>>) =>
    \A n \in ciLog.tracked :
      LET sx == ciLog.cap[n]["x"]
          sy == ciLog.cap[n]["y"]
          cx == ciLog.pre[n]["x"]
          cy == ciLog.pre[n]["y"]
          L  == ci.maxDeltaPosition
      IN  (Single(sx) /\ Single(sy) /\ Single(cx) /\ Single(cy)) =>
            /\ (Abs(cx - sx) > L \/ Abs(cy - sy) > L) =>
                 (val[n]["x"] = cx /\ val[n]["y"] = cy)
            /\ (Abs(cx - sx) < L /\ Abs(cy - sy) < L /\ (cx # sx \/ cy # sy)) =>
                 (val[n]["x"] = Blended(sx, cx, <<1, 2>>)
                  /\ val[n]["y"] = Blended(sy, cy, <<1, 2>>))

\* The rotation delta folded into (-pi, pi].
RECURSIVE Folded(_)
Folded(d) == IF d > PI THEN Folded(d - 2 * PI) ELSE IF d <= -PI THEN Folded(d + 2 * PI) ELSE d

\* C5: blend(t) presents the rotation of a tracked container on the
\* shortest arc from its start to its current value: start + fold * t
\* modulo a turn, where fold is the raw delta folded into (-pi, pi]; from
\* 170 degrees to -170 degrees that is 170 + 20 * t degrees.
C5_ShortestArc ==
  ciLog.op = "blend" =>
    \A n \in ciLog.tracked :
      LET s    == StartOf(ci, n, "rotation")
          fold == Folded(ciLog.pre[n]["rotation"] - s)
      IN  Abs(fold) <= ci.maxDeltaRotation =>
            (val[n]["rotation"] - (s + MulT(fold, Clamped(ciLog.t)))) % (2 * PI) = 0

\* The ticker runs a callback of the loop that went past the render limit
\* and has interpolated.
Interpolated == host = "InterpolatedTicker" /\ tlog.phase # "none" /\ tlog.blends = 1

\* The callbacks of the loop after the last call of update.
AfterUpdates == {"beforeRender", "onRender", "afterRender", "evalEnd"}

\* C6: a callback of the loop that goes past the render limit, begins with
\* accumulated time a >= 0, elapsed time e and a + e below the ceiling, and
\* keeps the interval d, calls update floor((a + e) / d) times, leaves
\* (a + e) mod d in the accumulator and interpolates with the factor
\* ((a + e) mod d) / d.
C6_Accumulator ==
  (Interpolated /\ tlog.dFixed /\ tlog.a0 >= 0
     /\ tlog.a0 + tlog.e < tlog.d0 * tk.maxUpdatesPerRender) =>
    /\ tlog.updates = (tlog.a0 + tlog.e) \div tlog.d0
    /\ tk.accumulator = (tlog.a0 + tlog.e) % tlog.d0
    /\ tlog.raw = <<(tlog.a0 + tlog.e) % tlog.d0, tlog.d0>>
    /\ tlog.factor = tlog.raw

\* Interval 10 ms, speed 1, an empty accumulator and 25 ms elapsed: two
\* calls of update and the factor 1/2.
C6_Witness ==
  /\ Interpolated /\ tlog.dFixed
  /\ tk.speed = 2 /\ tlog.d0 = 2 /\ tlog.a0 = 0 /\ tlog.e = 5
  /\ tlog.updates = 2 /\ tlog.factor = <<1, 2>> /\ tk.accumulator = 1

\* C7: every call of update receives the configured updateIntervalMs,
\* whatever was assigned to speed.
C7_FixedStep ==
  (host = "InterpolatedTicker" /\ tlog.updates > 0) =>
    tlog.step = tk.targetUpdateIntervalMs

\* C8 as stated: from an empty accumulator and for the same elapsed time, a
\* callback of the loop at speed 2s calls update exactly twice as often as
\* one at speed s.
C8_Doubling ==
  (host = "InterpolatedTicker" /\ pc \in AfterUpdates /\ tlog.dFixed /\ tlog.a0 = 0
     /\ tk.speed \in {2, 4}) =>
    tlog.updates = 2 * DueUpdates(tk, tk.speed \div 2, tlog.e)

\* C8, amended: from an empty accumulator and for the same elapsed time e
\* below the ceiling of the faster speed, a callback of the loop at speed 2s
\* calls update floor(e / d) times, d the interval at speed 2s, which is 2n
\* or 2n + 1 for the n calls of a callback at speed s.
C8_DoublingWithin ==
  (host = "InterpolatedTicker" /\ pc \in AfterUpdates /\ tlog.dFixed /\ tlog.a0 = 0
     /\ tk.speed \in {2, 4} /\ tlog.e < tlog.d0 * tk.maxUpdatesPerRender) =>
    LET n == DueUpdates(tk, tk.speed \div 2, tlog.e)
    IN  /\ tlog.updates = tlog.e \div tlog.d0
        /\ tlog.updates \in {2 * n, 2 * n + 1}
        /\ tlog.updates = 2 * n <=> 2 * (tlog.e % (2 * tlog.d0)) < 2 * tlog.d0

\* 15 ms elapsed: one call of update at speed 1, three at speed 2.
C8_Witness ==
  /\ host = "InterpolatedTicker" /\ pc \in AfterUpdates /\ tlog.dFixed /\ tlog.a0 = 0
  /\ tk.speed = 4 /\ tlog.e = 3
  /\ tlog.updates = 3
  /\ DueUpdates(tk, 2, tlog.e) = 1

\* C9: a callback of the loop calls update at most maxUpdatesPerRender
\* times, however long the elapsed time.
C9_BoundedCatchUp ==
  host = "InterpolatedTicker" => tlog.updates <= tk.maxUpdatesPerRender

\* What a callback of the loop that returns at the render limit does: nothing.
NothingDone ==
  /\ tlog.skipped
  /\ tlog.updates = 0 /\ tlog.hooks = 0 /\ tlog.captures = 0
  /\ tlog.blends = 0 /\ tlog.restores = 0 /\ tlog.renders = 0

\* What a callback of the loop that goes past the render limit does.
Presents == ~tlog.skipped /\ (tlog.phase = "done" => tlog.renders = 1)

\* C10 as stated, for a ticker that is started: with a render limit, a
\* callback of the loop less than 1000 / f after the last render() calls
\* nothing and schedules the next callback; one at or beyond 1000 / f after
\* the last render() presents.
C10_Throttle ==
  (host = "InterpolatedTicker" /\ tlog.phase # "none" /\ tlog.started0
     /\ tlog.limit0 # NoLimit /\ tlog.sinceRender0 # NoLimit) =>
    /\ tlog.sinceRender0 < tlog.limit0 => (NothingDone /\ tlog.scheduled = 1)
    /\ tlog.sinceRender0 >= tlog.limit0 => Presents

\* C10, amended: with a render limit, a callback of the loop less than
\* 1000 / f after the later of the last callback that presented and the last
\* start() calls nothing, and schedules the next callback if the ticker is
\* started; one at or beyond that interval presents.  A callback less than
\* 1000 / f after the last render() is one of the former.
C10_ThrottleFromBaseline ==
  (host = "InterpolatedTicker" /\ tlog.phase # "none" /\ tlog.limit0 # NoLimit) =>
    /\ tlog.e < tlog.limit0 =>
         (NothingDone /\ tlog.scheduled = (IF tlog.started0 THEN 1 ELSE 0))
    /\ tlog.e >= tlog.limit0 => Presents
    /\ (tlog.sinceRender0 # NoLimit /\ tlog.sinceRender0 < tlog.limit0) => tlog.e < tlog.limit0

\* A callback of the loop 5 ms after a render(), with a render interval of
\* 10 ms or more, returned at the limit and scheduled the next one; and one
\* at the interval presented.
C10_Witness ==
  /\ host = "InterpolatedTicker" /\ tlog.phase = "done" /\ tlog.limit0 # NoLimit
  /\ tlog.sinceRender0 = 1 /\ tlog.e = 1
  /\ NothingDone /\ tlog.scheduled = 1 /\ pending = 1

\* C11: a callback of the loop that begins after stop(), with the ticker
\* stopped, calls no update, no hook, no capture, blend, restore or render
\* and schedules nothing; and a callback that ends with the ticker stopped
\* schedules no further one.
C11_StopBeforeNextAttempt ==
  (host = "InterpolatedTicker" /\ tlog.phase # "none") =>
    /\ ~tlog.started0 =>
         /\ tlog.updates = 0 /\ tlog.hooks = 0 /\ tlog.captures = 0
         /\ tlog.blends = 0 /\ tlog.restores = 0 /\ tlog.renders = 0
         /\ tlog.scheduled = 0
    /\ (tlog.phase = "done" /\ ~tk.started) => tlog.scheduled = 0

\* C12: requestAnimationFrame never holds more than one callback of the loop,
\* whatever the order of start(), stop() and the frames.
C12_SingleLoop == host = "InterpolatedTicker" => pending <= 1

\* k times capture, update.
RECURSIVE CaptureUpdate(_)
CaptureUpdate(k) == IF k = 0 THEN <<>> ELSE <<"capture", "update">> \o CaptureUpdate(k - 1)

\* The calls of a whole callback of the loop with k updates.
AttemptOrder(k) ==
  <<"evalStart">> \o CaptureUpdate(k)
    \o <<"beforeRender", "blend", "onRender", "render", "restore", "afterRender">>
    \o <<"evalEnd">>

\* s is the beginning of q.
IsPrefix(s, q) == Len(s) <= Len(q) /\ s = SubSeq(q, 1, Len(s))

TrueStateHooks == {"update", "beforeRender", "afterRender"}

\* C14: whenever update, beforeRender or afterRender is called, every
\* container that is not destroyed holds the six values the host wrote, for
\* every sequence of callbacks of the loop and whatever the hooks assign,
\* the interpolation switch included.  Stated for values that single
\* precision holds exactly.
C14_TrueState ==
  (host = "InterpolatedTicker" /\ pc \in TrueStateHooks) =>
    \A n \in Nodes :
      (~destroyed[n] /\ \A p \in PropSet : Single(tlog.truth[n][p])) =>
        val[n] = tlog.truth[n]

\* The interpolator without its references to destroyed containers.
Forget(c) ==
  [c EXCEPT !.containers =
     [j \in DOMAIN @ |-> IF @[j] # 0 /\ destroyed[@[j]] THEN 0 ELSE @[j]]]

\* C15: a blend, and the unblend after it, write no property of a container
\* that was destroyed after capture, and leave every other container as
\* the same call would on an interpolator that never tracked the destroyed
\* ones.
C15_DestroyedUntouched ==
  /\ ciLog.op \in {"blend", "blend-unblend"} =>
       \A n \in Nodes : destroyed[n] => val[n] = ciLog.pre[n]
  /\ ciLog.op = "blend" =>
       val = CIBlendLoop(Forget(ci), ciLog.pre, 0, Clamped(ciLog.t)).val
  /\ ciLog.op = "blend-unblend" =>
       val = CIUnblendLoop(Forget(ci), ciLog.pre, 0)

\* The child was captured and then destroyed; the blend half way moved the
\* stage from 99.5 to 49.75 and left the child alone.
C15_Witness ==
  /\ ciLog.op = "blend" /\ ciLog.t = <<2, 4>>
  /\ destroyed[2] /\ ~destroyed[Root]
  /\ \E i \in 0 .. ci.count - 1 : ArrGet(ci.containers, i) = 2
  /\ Root \in ciLog.tracked
  /\ ciLog.pre[Root]["x"] = 1592 /\ val[Root]["x"] = 796
  /\ val[2] = ciLog.pre[2]

\* C16: after a capture pass of the ticker every container the pass did not
\* reach holds no slot, and every slot ever allocated is either held by a
\* container the pass reached or on the free list: the slots of k removed
\* containers are released, so that the next k new containers take them
\* and no further slot is allocated.
C16_SlotsReleased ==
  (host = "InterpolatedTicker" /\ pc = "update") =>
    /\ \A n \in Nodes \ TKTracked(tk) : nd[n]._interpIdx = NoLimit
    /\ tk.maxIdx = Cardinality(TKTracked(tk)) + Len(tk.releasedIdx)

\* A container is eligible when its flag says so, and when it has no flag
\* and is visible.
Eligible(n) ==
  IF isInterpolated[n] # "undefined" THEN isInterpolated[n] = "true" ELSE visible[n]

\* The children of a container are walked when its children flag says so,
\* and when it has no children flag and is eligible itself.
ChildrenWalked(n) ==
  IF hasInterpolatedChildren[n] # "undefined"
  THEN hasInterpolatedChildren[n] = "true"
  ELSE Eligible(n)

RECURSIVE EligibleOrder(_)
RECURSIVE EligibleOrderOf(_, _)

\* The eligible containers of the subtree of n, depth first, parents first.
EligibleOrder(n) ==
  IF destroyed[n] THEN <<>>
  ELSE (IF Eligible(n) THEN <<n>> ELSE <<>>)
         \o (IF ChildrenWalked(n) THEN EligibleOrderOf(children[n], 1) ELSE <<>>)

EligibleOrderOf(kids, k) ==
  IF k > Len(kids) THEN <<>>
  ELSE EligibleOrder(kids[k]) \o EligibleOrderOf(kids, k + 1)

\* The first k entries of a sequence, as a set.
FirstOf(q, k) == {q[j] : j \in 1 .. Min(k, Len(q))}

\* The blend of one property of a container whose position and scale moved
\* within the limits since the capture: the captured value, the value
\* before the blend, and the value after it.
BlendedFromCapture(n, p) ==
  LET s  == ciLog.cap[n][p]
      c  == ciLog.pre[n][p]
      s2 == ciLog.cap[n][Paired(p)]
      c2 == ciLog.pre[n][Paired(p)]
  IN  (Single(s) /\ Single(c) /\ Abs(c - s) <= LimitOf(ci, p)
         /\ Abs(c2 - s2) <= LimitOf(ci, p)) =>
        val[n][p] = Blended(s, c, Clamped(ciLog.t))

\* C17: when a capture reaches more eligible containers than maxCapacity,
\* the first maxCapacity of them in traversal order are tracked and the
\* blend writes start + (current - start) * t into them, and the blend
\* leaves every container beyond capacity at its values.
C17_CapacityExhaustion ==
  (ciLog.op = "blend" /\ ci.prevCount > 0
     /\ Len(EligibleOrder(Root)) > ci.maxCapacity) =>
    LET first == FirstOf(EligibleOrder(Root), ci.maxCapacity)
    IN  /\ ciLog.tracked = first
        /\ \A n \in Nodes \ first : val[n] = ciLog.pre[n]
        /\ \A n \in first : \A p \in PropSet : BlendedFromCapture(n, p)

\* C18: after a capture, for every tracked container, those captured after
\* a growth step of the same pass included, the stored start snapshot
\* equals the container's values at capture time.  Stated for values that
\* single precision holds exactly.
C18_GrowthKeepsSnapshots ==
  ciLog.op = "capture" =>
    \A n \in CITracked(ci) : \A p \in PropSet :
      Single(val[n][p]) => StartOf(ci, n, p) = val[n][p]

\* C19: capture leaves the six properties of every container as they were.
C19_CaptureReadOnly == ciLog.op = "capture" => val = ciLog.cap

\* A capture tracked the stage and its child after the host had moved the
\* stage to x = 99.5 and set the child's alpha to 0.5.
C19_Witness ==
  /\ ciLog.op = "capture" /\ CITracked(ci) = {Root, 2}
  /\ val[Root]["x"] = 1592 /\ val[2]["alpha"] = 8

C22_SwitchedOff ==
  (host = "InterpolatedTicker" /\ ~tk.interpolation) =>
    /\ tlog.captures = 0 /\ tlog.blends = 0 /\ tlog.restores = 0
    /\ nd = [n \in Nodes |-> NoNodeFields]
    /\ tk.maxIdx = 0 /\ tk.idxContainersCount = 0
    /\ tk.prev = [p \in PropSet |-> NewArray(tk.capacity)]

\* The limit the documentation puts in force: the configured one, or the
\* documented default when none was configured.
LimitInForce(limit, dflt) == IF limit = NoLimit THEN dflt ELSE limit

\* C23: a ticker constructed without autoLimit options applies the
\* documented limits (position 100, scale 1, alpha 0.5): at the blend of an
\* attempt, a tracked container whose position, scale or alpha changed
\* within the limit in force since the capture is presented at the blended
\* value previous + factor * delta.  Stated for values that single
\* precision holds exactly.
C23_DefaultLimits ==
  (host = "InterpolatedTicker" /\ pc = "onRender" /\ tlog.blends = 1) =>
    \A n \in {m \in tlog.tracked : \A p \in PropSet : Single(tlog.pre[m][p])} :
      LET i  == nd[n]._interpIdx
          d  == [p \in PropSet |-> tlog.pre[n][p] - tk.prev[p][i]]
          to == [p \in PropSet |-> Lerp(tk.prev[p][i], d[p], tlog.factor)]
          lp == LimitInForce(tk.autoLimitPosition, 100 * Den)
          ls == LimitInForce(tk.autoLimitScale, Den)
          la == LimitInForce(tk.autoLimitAlpha, Den \div 2)
      IN  /\ (Abs(d["x"]) <= lp /\ Abs(d["y"]) <= lp) =>
               (val[n]["x"] = to["x"] /\ val[n]["y"] = to["y"])
          /\ (Abs(d["scaleX"]) <= ls /\ Abs(d["scaleY"]) <= ls) =>
               (val[n]["scaleX"] = to["scaleX"] /\ val[n]["scaleY"] = to["scaleY"])
          /\ Abs(d["alpha"]) <= la => val[n]["alpha"] = to["alpha"]

RECURSIVE SubtreeOf(_, _)
\* The containers of the subtrees of the first k of kids.
SubtreeOf(kids, k) ==
  IF k = 0 THEN {}
  ELSE SubtreeOf(kids, k - 1) \cup {kids[k]}
         \cup SubtreeOf(children[kids[k]], Len(children[kids[k]]))

\* A container and its descendants.
Subtree(n) == {n} \cup SubtreeOf(children[n], Len(children[n]))

\* The containers below a container whose interpolation is false, the
\* container included.
OptedOutSubtrees ==
  UNION {Subtree(n) : n \in {m \in Nodes : nd[m].interpolation = "false"}}

C26_ScheduledFirst ==
  (host = "InterpolatedTicker" /\ tlog.phase = "running" /\ tlog.started0
     /\ pc \in Hooks) =>
    tlog.scheduled = 1

\* C27: in every state no two containers hold the same slot, no slot on
\* the free list is held by a container, and no slot is on the free list
\* twice.
C27_SlotExclusivity ==
  host = "InterpolatedTicker" =>
    /\ \A n \in Nodes : \A m \in Nodes \ {n} :
         nd[n]._interpIdx # NoLimit => nd[n]._interpIdx # nd[m]._interpIdx
    /\ \A k \in 1 .. Len(tk.releasedIdx) :
         /\ \A n \in Nodes : nd[n]._interpIdx # tk.releasedIdx[k]
         /\ \A j \in 1 .. k - 1 : tk.releasedIdx[j] # tk.releasedIdx[k]

\* The child was destroyed in an update after the capture pass gave it
\* slot 1.  The blend released the slot, and the restore, which found the
\* destroyed child in the tracked list again, released nothing: slot 1 is
\* on the free list once and the stage holds slot 0.
C27_Witness ==
  /\ host = "InterpolatedTicker" /\ pc = "afterRender"
  /\ tlog.blends = 1 /\ tlog.restores = 1
  /\ destroyed[2] /\ nd[2]._interpIdx = NoLimit
  /\ tk.idxContainersCount = 2 /\ ArrGet(tk.idxContainers, 1) = 2
  /\ nd[Root]._interpIdx = 0
  /\ tk.releasedIdx = <<1>>

\* The destroyed containers that hold a slot and are not in the tracked
\* list, the only place where a blend or a restore looks for containers to
\* release.
Leaked ==
  {n \in Nodes : /\ destroyed[n] /\ nd[n]._interpIdx # NoLimit
                 /\ \A i \in 0 .. tk.idxContainersCount - 1 :
                      ArrGet(tk.idxContainers, i) # n}

\* C28: a destroyed container that still holds its slot is within reach of
\* the pass that is to release it: it is in the tracked list, where the
\* next blend or restore finds it, or a capture pass has released it.
C28_NoSlotLeak ==
  host = "InterpolatedTicker" => Leaked = {}

\* C29: in every state the capacity of the buffer is at least the tracked
\* count, and every slot in use is below the capacity: for the
\* ContainerInterpolator its count, for the ticker the length of its
\* tracked list and the slot of every container.
C29_CapacityBound ==
  /\ host = "ContainerInterpolator" =>
       /\ ci.capacity >= ci.count
       /\ ci.capacity <= ci.maxCapacity
  /\ host = "InterpolatedTicker" =>
       /\ tk.capacity >= tk.idxContainersCount
       /\ tk.capacity >= tk.maxIdx
       /\ \A n \in Nodes : nd[n]._interpIdx < tk.capacity

\* The snapshot of the last capture holds, for every tracked container, the
\* values the container has, as single precision stores them.
SnapshotTaken ==
  /\ ci.count <= ci.capacity
  /\ \A i \in 0 .. ci.count - 1 :
       ArrGet(ci.containers, i) # 0 =>
         \A p \in PropSet : ci.start[p][i] = Fround(val[ArrGet(ci.containers, i)][p])

\* A second capture directly after a capture changes nothing.  Stated for
\* a first capture that stored its snapshot.
CaptureIdempotent ==
  (ciLog.op = "capture" /\ ciLog'.op = "capture" /\ SnapshotTaken) =>
    (val' = val /\ ci' = ci /\ isInterpolated' = isInterpolated)

\* The snapshot holds, for every tracked container, the values the
\* container had at the last capture.
SnapshotKept ==
  /\ ci.count <= ci.capacity
  /\ \A i \in 0 .. ci.count - 1 :
       ArrGet(ci.containers, i) # 0 =>
         \A p \in PropSet : ci.start[p][i] = ciLog.cap[ArrGet(ci.containers, i)][p]

\* A second blend(t) directly after a blend(t) changes nothing.  Stated for
\* a snapshot that the capture stored.
BlendIdempotent ==
  (ciLog.op = "blend" /\ ciLog'.op = "blend" /\ ciLog'.t = ciLog.t /\ SnapshotKept) =>
    (val' = val /\ ci' = ci)

\* A second unblend directly after an unblend changes nothing.
UnblendIdempotent ==
  (ciLog.op \in {"blend-unblend", "unblend"} /\ ciLog'.op = "unblend"
     /\ calls' = calls + 1) =>
    (val' = val /\ ci' = ci)

\* C30: capture(root) twice in succession, blend(t) twice in succession and
\* unblend() twice in succession each leave the containers' properties and
\* the buffers as the first of the two calls left them.
C30_PassesIdempotent ==
  [][CaptureIdempotent /\ BlendIdempotent /\ UnblendIdempotent]_vars

\* The value of [-range/2, range/2) congruent to d modulo range.
ShortPath(d, range) ==
  CHOOSE f \in (0 - (range \div 2)) .. ((range \div 2) - 1) : (f - d) % range = 0

\* The delta of an axis the documentation has the blend use.
WrappedDelta(d, set, range) == IF set /\ range > 0 THEN ShortPath(d, range) ELSE d

\* C31: at the blend of an attempt, a tracked container with
\* interpolationWraparound range R > 0 on an axis is presented at
\* previous + factor * delta on that axis, delta the raw delta folded to the
\* value of [-R/2, R/2) congruent to it modulo R, for positive and negative
\* raw deltas; a container without interpolationWraparound is presented with
\* the raw delta.  Stated for deltas within autoLimitPosition on both axes
\* and values that single precision holds exactly.
C31_Wraparound ==
  (host = "InterpolatedTicker" /\ pc = "onRender" /\ tlog.blends = 1) =>
    \A n \in {m \in tlog.tracked : \A p \in {"x", "y"} : Single(tlog.pre[m][p])} :
      LET i    == nd[n]._interpIdx
          wrap == nd[n].interpolationWraparound
          dx   == WrappedDelta(tlog.pre[n]["x"] - tk.prev["x"][i], wrap.set, wrap.xRange)
          dy   == WrappedDelta(tlog.pre[n]["y"] - tk.prev["y"][i], wrap.set, wrap.yRange)
      IN  (WithinLimit(dx, tk.autoLimitPosition) /\ WithinLimit(dy, tk.autoLimitPosition)) =>
            /\ val[n]["x"] = Lerp(tk.prev["x"][i], dx, tlog.factor)
            /\ val[n]["y"] = Lerp(tk.prev["y"][i], dy, tlog.factor)

\* A child with the range 100 moved from x = 99.5 to x = 0 in update is
\* presented half way at 99.75, across the boundary.
C31_Witness ==
  /\ host = "InterpolatedTicker" /\ pc = "onRender" /\ tlog.blends = 1
  /\ nd[2].interpolationWraparound.set /\ nd[2].interpolationWraparound.xRange = 100 * Den
  /\ 2 \in tlog.tracked
  /\ tk.prev["x"][nd[2]._interpIdx] = 1592 /\ tlog.pre[2]["x"] = 0
  /\ tlog.factor = <<1, 2>>
  /\ val[2]["x"] = 1596

\* C32: after a capture of the stage with no more eligible containers than
\* the capacity, the tracked list holds at the indices 0 .. count - 1 the
\* eligible, non-destroyed containers the walk reaches from the stage, depth
\* first and parents first, each once; and it holds no container at an
\* index from count on, whatever an earlier pass tracked there.
C32_TrackedFromScratch ==
  (ciLog.op = "capture" /\ Len(EligibleOrder(Root)) <= ci.capacity) =>
    /\ ci.count = Len(EligibleOrder(Root))
    /\ \A i \in 1 .. ci.count : ArrGet(ci.containers, i - 1) = EligibleOrder(Root)[i]
    /\ \A i, j \in 1 .. ci.count :
         ArrGet(ci.containers, i - 1) = ArrGet(ci.containers, j - 1) => i = j
    /\ \A j \in DOMAIN ci.containers : j >= ci.count => ci.containers[j] = 0

\* A pass had tracked the stage and its two children; the first child was
\* destroyed, and the next pass tracks the stage and the second child and
\* has cleared index 2.
C32_Witness ==
  /\ ciLog.op = "capture"
  /\ destroyed[2] /\ isInterpolated[2] = "true" /\ ~destroyed[3]
  /\ ci.count = 2
  /\ ArrGet(ci.containers, 0) = Root /\ ArrGet(ci.containers, 1) = 3
  /\ 2 \in DOMAIN ci.containers /\ ci.containers[2] = 0

\* C33: the default eligibility of a container is decided once: after a
\* capture pass, every container the pass reached holds a cached decision,
\* true or false, in its eligibility flag, so that no later pass evaluates
\* the default for it again.  The pass reaches the stage, and the child of
\* the stage when the stage's children are walked.
C33_DecidedOnce ==
  (host = "ContainerInterpolator" /\ ciLog.op = "capture") =>
    /\ ~destroyed[Root] => isInterpolated[Root] # "undefined"
    /\ \A k \in 1 .. Len(children[Root]) :
         (~destroyed[Root] /\ ChildrenWalked(Root) /\ ~destroyed[children[Root][k]]) =>
           isInterpolated[children[Root][k]] # "undefined"

\* C34: the maximum-delta cut-off is applied to each property on its own:
\* blend(t) writes start + (current - start) * t into a property of a
\* tracked container iff that property's own |current - start| is within
\* its limit, and leaves the property at its current value otherwise; a
\* container whose x moved within maxDeltaPosition while its y moved beyond
\* it has x blended and y left alone.  Stated for a snapshot that the
\* capture stored.
C34_PerPropertyCutOff ==
  (host = "ContainerInterpolator" /\ ciLog.op = "blend" /\ SnapshotKept) =>
    \A n \in ciLog.tracked : \A p \in PropSet :
      LET s == StartOf(ci, n, p)
          c == ciLog.pre[n][p]
      IN  val[n][p] = IF Abs(c - s) <= LimitOf(ci, p)
                      THEN Blended(s, c, Clamped(ciLog.t))
                      ELSE c

RECURSIVE Recursed(_)
RECURSIVE RecursedOf(_, _)

\* The containers a walk from n visits when it recurses into the listed
\* containers of a container with interpolatedChildren and into the
\* ordinary children of one without, in order.
Recursed(n) ==
  <<n>> \o RecursedOf(IF nd[n].interpolatedChildren.set
                      THEN nd[n].interpolatedChildren.list
                      ELSE children[n], 1)

RecursedOf(kids, k) ==
  IF k > Len(kids) THEN <<>> ELSE Recursed(kids[k]) \o RecursedOf(kids, k + 1)

\* C35: a capture pass recurses from a tracked container with
\* interpolatedChildren into exactly the listed containers, in the order of
\* the list, and into none of its ordinary children that are not listed;
\* from a container without it the pass recurses into all ordinary
\* children.  The tracked list after the pass is the sequence of that walk.
C35_ListedChildren ==
  (host = "InterpolatedTicker" /\ pc = "update") =>
    /\ tk.idxContainersCount = Len(Recursed(Root))
    /\ \A i \in 1 .. tk.idxContainersCount :
         ArrGet(tk.idxContainers, i - 1) = Recursed(Root)[i]

\* The stage has the children 2 and 3 and lists 3 alone: the pass tracked
\* the stage and 3, and 2 has no slot.
C35_Witness ==
  /\ host = "InterpolatedTicker" /\ pc = "update"
  /\ children[Root] = <<2, 3>>
  /\ nd[Root].interpolatedChildren = [set |-> TRUE, list |-> <<3>>]
  /\ tk.idxContainersCount = 2
  /\ ArrGet(tk.idxContainers, 0) = Root /\ ArrGet(tk.idxContainers, 1) = 3
  /\ nd[2]._interpIdx = NoLimit /\ nd[3]._interpIdx # NoLimit

\* C36: after the catch-up loop of an attempt that went past the render
\* limit, 0 <= accumulator < the step interval in force, and the factor
\* handed to the interpolation is accumulator / interval as it is, inside
\* [0, 1), whatever times elapsed and whatever speeds were assigned between
\* the attempts.  An attempt during which speed is assigned is left out;
\* without such attempts every attempt begins with accumulated time >= 0.
C36_AccumulatorRange ==
  (host = "InterpolatedTicker" /\ pc \in AfterUpdates /\ tlog.dFixed /\ tlog.a0 >= 0) =>
    /\ 0 <= tk.accumulator
    /\ tk.accumulator < tk.updateIntervalMs
    /\ pc # "beforeRender" =>
         /\ tlog.raw = <<tk.accumulator, tk.updateIntervalMs>>
         /\ tlog.factor = tlog.raw
         /\ 0 <= tlog.factor[1] /\ tlog.factor[1] < tlog.factor[2]

\* Speed was doubled twice between two attempts, which left 5 ms of
\* accumulated time against the new interval of 5 ms: the attempt 5 ms
\* later called update twice and interpolates with the factor 0.
C36_Witness ==
  /\ host = "InterpolatedTicker" /\ pc = "onRender" /\ tlog.dFixed
  /\ tk.speed = 4 /\ tlog.d0 = 1 /\ tlog.a0 = 1 /\ tlog.e = 1
  /\ tlog.updates = 2 /\ tk.accumulator = 0 /\ tlog.factor = <<0, 1>>

\* The ticker is between two attempts, the last of which returned at the
\* render limit (or not).
AfterAttempt(skipped) ==
  host = "InterpolatedTicker" /\ pc = "idle" /\ tlog.phase = "done" /\ tlog.skipped = skipped

\* C37: the render limit loses no simulation time.  In a run from start()
\* at a fixed interval d whose total time stays below the ceiling of the
\* accumulator (no clamping), after every attempt that went past the render
\* limit update has been called floor(total time / d) times and the
\* accumulator holds total time mod d, however many attempts were skipped;
\* after a skipped attempt the time since the baseline is the part of the
\* total that the update calls and the accumulator do not account for yet.
C37_NoTimeLost ==
  (host = "InterpolatedTicker" /\ tlog.metered
     /\ tlog.elapsed < tk.updateIntervalMs * tk.maxUpdatesPerRender) =>
    /\ (pc \in AfterUpdates \/ AfterAttempt(FALSE)) =>
         /\ tlog.total = tlog.elapsed \div tk.updateIntervalMs
         /\ tk.accumulator = tlog.elapsed % tk.updateIntervalMs
    /\ AfterAttempt(TRUE) =>
         tlog.total * tk.updateIntervalMs + tk.accumulator + sincePrev = tlog.elapsed

\* With a limit of 20 ms between renders, the first attempt 15 ms after
\* start() was skipped; the second, 15 ms later, had 30 ms elapsed and
\* called update three times.
C37_Witness ==
  /\ AfterAttempt(FALSE) /\ tlog.metered
  /\ tk.maxRenderIntervalMs = 4 /\ frames = 2
  /\ tlog.e = 6 /\ tlog.elapsed = 6 /\ tlog.updates = 3 /\ tlog.total = 3

\* C38: a maxRenderFPS of 0 or below is normalised, not rejected.  After
\* the host assigned such a value, whatever limit was in force before, the
\* ticker holds no render limit (-1 for the rate and for the interval), and
\* an attempt that begins without a render limit is never skipped, however
\* soon after the baseline it comes.
C38_NonPositiveRate ==
  host = "InterpolatedTicker" =>
    /\ (tlog.rate # <<>> /\ tlog.rate[1] <= 0) =>
         (tk.maxRenderFPS = NoLimit /\ tk.maxRenderIntervalMs = NoLimit)
    /\ (tlog.phase # "none" /\ tlog.limit0 = NoLimit) => ~tlog.skipped

\* The host replaced a render limit by maxRenderFPS = -60, and the attempt
\* 5 ms after the baseline went on to render.
C38_Witness ==
  /\ host = "InterpolatedTicker" /\ pc = "onRender"
  /\ tlog.rate = <<0 - 60>> /\ tlog.limit0 = NoLimit
  /\ tlog.e = 1 /\ ~tlog.skipped

\* v is the multiple of precision nearest to count * 1000 / elapsed.
NearestFps(v, count, elapsed, precision) ==
  /\ v % precision = 0
  /\ 2 * Abs(v * elapsed - count * 1000) <= precision * elapsed

\* C39: a call of the sampler invokes onChange at most once, and only when
\* the time accumulated since the last sample has reached intervalMS; the
\* value it passes is the frame rate of the sample rounded to the
\* precision and differs from the value passed before, so no two
\* consecutive notifications carry the same value.
C39_FpsReporting ==
  host = "fpsCounter" =>
    /\ Len(fcLog.onChange) <= 1
    /\ fcLog.onChange # <<>> =>
         /\ fcLog.acc >= fc.intervalMS
         /\ NearestFps(fcLog.onChange[1], fcLog.frames, fcLog.acc, fc.precision)
         /\ fcLog.reported[Len(fcLog.reported)] = fcLog.onChange[1]
    /\ \A i \in 1 .. Len(fcLog.reported) - 1 : fcLog.reported[i] # fcLog.reported[i + 1]

\* Samples every 50 ms: frames of 50, 50 and 120 ms are three samples of
\* 20, 20 and 8 frames per second, and onChange was called with 20 and 8.
C39_Witness ==
  /\ host = "fpsCounter" /\ fc.intervalMS = 50
  /\ fcLog.calls = 3 /\ fcLog.acc = 120
  /\ fcLog.reported = <<20, 8>> /\ fcLog.onChange = <<8>>

====
